---------------------------- MODULE Spec2Model ----------------------------
(***************************************************************************)
(* A model of the extraction / normalisation pipeline of the Facebook      *)
(* group scraper: post assembly and validity (extractSinglePost,           *)
(* isValidPost), de-duplication (removeDuplicatePosts), filtering          *)
(* (ApplyFilter, BatchFilter), and the text parsers                        *)
(* (extractNumberFromText, parseRelativeTime).                             *)
(*                                                                         *)
(* Go strings whose characters matter (content, keywords, author names,    *)
(* texts handed to the parsers) are tuples of one-character strings;       *)
(* identifiers, whose characters never matter, are TLA+ strings.           *)
(* Times are integers, in seconds; 0 is Go's zero time.Time.               *)
(***************************************************************************)
EXTENDS Integers, Sequences, FiniteSets, TLC

VARIABLES
    now,            \* the wall clock, as read by time.Now()
    loc,            \* time.Local, the time zone of the clock
    \* ---- extractPosts / extractSinglePost
    cand,           \* the candidate node handed to extractSinglePost last
    lastPost,       \* what extractSinglePost returned for it (NilPost: nil)
    posts,          \* extractPosts' result slice
    nProcessed,     \* candidate nodes extractPosts has gone through
    \* ---- ScrapeGroup's merge step
    browserPosts,   \* posts of the browser strategy
    staticPosts,    \* posts of the static strategy, appended after them
    uniquePosts,    \* removeDuplicatePosts(append(posts, staticPosts...))
    remerged,       \* removeDuplicatePosts applied to its own output
    mpc,            \* "collect", "merged", "remerged"
    \* ---- BatchFilter
    fsFilter,       \* fs.filter, the types.PostFilter
    fposts,         \* the posts handed to BatchFilter
    filteredPosts,  \* the posts it returns
    filterStats,    \* the types.FilterStats it returns
    clockReads,     \* what time.Now() returned: [0] in BatchFilter, [i] for post i
    fpc,            \* "collect", "done"
    \* ---- extractNumberFromText
    numShape,       \* how the text handed to it was written
    numText,        \* the text handed to it
    numResult,      \* the count it returns
    npc,            \* "idle", "read", "done"
    \* ---- parseRelativeTime
    timeShape,      \* how the text handed to it was written
    timeText,       \* the text handed to it
    parsedTime,     \* the time it returns
    tpc,            \* "idle", "read", "done"
    \* ---- extractPosts on a document, then the merge
    doc,            \* the nodes of the document, in document order
    docRun,         \* what extractPosts did: the posts, and its calls
    docAgain,       \* what extractPosts did on the same markup fetched again
    docUnique,      \* removeDuplicatePosts of these posts
    dpc,            \* "build", "extracted", "merged"
    \* ---- the store
    table,          \* the rows of the posts table
    \* ---- main's loop over the groups, and ScrapeGroup
    groupIdx,       \* index of the group main's loop is at
    rpc,            \* "group", "browser", "static", "finish", "sleep", "done"
    urlIdx,         \* index of the URL scrapeWithStaticMethod's loop is at
    groupPosts,     \* this group's posts so far (posts, allPosts)
    fetches,        \* this group's fetches so far
    results,        \* per group scraped: what ScrapeGroup did and returned
    \* ---- callers of SavePost
    pending,        \* per caller, the models.Post values it has still to save
    saveLog,        \* the models.Post values saved, in the order of the saves
    \* ---- extractPostID on one node
    idNode,         \* the attributes and links of the node
    returnedID,     \* what extractPostID returned
    ipc,            \* "idle", "returned"
    \* ---- extractAuthorName on one node
    authorElems,    \* per author selector, the text of the first element it finds
    authorName,     \* what extractAuthorName returned
    apc,            \* "idle", "read", "returned"
    \* ---- the links of extractTextualEntities on one node
    anchors,        \* the href of each a element of the node, in document order
    postLinks,      \* post.Links after extractTextualEntities
    lpc,            \* "idle", "read", "extracted"
    \* ---- extractImages and extractVideos on one node
    mediaElems,     \* the img, video, source, a and div elements of the node, in document order
    postMedia,      \* post.Images and post.Videos after extractImages and extractVideos
    vpc,            \* "idle", "extracted"
    \* ---- performScrolling
    spc,            \* where performScrolling is: "wait", "progressive", "infinite", "done"
    scrollIter,     \* i, the iterations of the running strategy that are over
    oldVisible,     \* whether the page showed a post of 5 days or more at the last test
    hasOldPosts,    \* the Go variable hasOldPosts after the last test
    evalFailed,     \* whether the last test's Evaluate returned an error
    scrollRan,      \* the strategies that have returned: name, iterations, err
    \* ---- Monitor
    metrics,        \* the Monitor's m.metrics
    recorded,       \* the number of calls of RecordScrapingRun so far
    \* ---- the API's /api/posts
    apiRequest,     \* the page, page_size and min_likes query parameters of the request ("" for a missing one)
    storeArgs,      \* what handlePosts passed to the store, and the offset of the query
    apiStatus,      \* the status of the response, 0 before it
    hpc             \* "idle", "received", "handled"

assembleVars == <<cand, lastPost, posts, nProcessed>>
mergeVars    == <<browserPosts, staticPosts, uniquePosts, remerged, mpc>>
filterVars   == <<fsFilter, fposts, filteredPosts, filterStats, clockReads, fpc>>
countVars    == <<numShape, numText, numResult, npc>>
timeVars     == <<timeShape, timeText, parsedTime, tpc>>
docVars      == <<doc, docRun, docAgain, docUnique, dpc>>
runVars      == <<groupIdx, rpc, urlIdx, groupPosts, fetches, results>>
saveVars     == <<pending, saveLog>>
idVars       == <<idNode, returnedID, ipc>>
authorVars   == <<authorElems, authorName, apc>>
linkVars     == <<anchors, postLinks, lpc>>
mediaVars    == <<mediaElems, postMedia, vpc>>
scrollVars   == <<spc, scrollIter, oldVisible, hasOldPosts, evalFailed, scrollRan>>
monitorVars  == <<metrics, recorded>>
apiVars      == <<apiRequest, storeArgs, apiStatus, hpc>>
vars         == <<now, loc, assembleVars, mergeVars, filterVars, countVars, timeVars, docVars, table, runVars, saveVars, idVars, authorVars, linkVars, mediaVars, scrollVars, monitorVars, apiVars>>

\* What the steps of one component leave alone.
notAssemble == <<loc, mergeVars, filterVars, countVars, timeVars, docVars, table, runVars, saveVars, idVars, authorVars, linkVars, mediaVars, scrollVars, monitorVars, apiVars>>
notMerge    == <<loc, now, assembleVars, filterVars, countVars, timeVars, docVars, table, runVars, saveVars, idVars, authorVars, linkVars, mediaVars, scrollVars, monitorVars, apiVars>>
notFilter   == <<loc, assembleVars, mergeVars, countVars, timeVars, docVars, table, runVars, saveVars, idVars, authorVars, linkVars, mediaVars, scrollVars, monitorVars, apiVars>>
notCount    == <<loc, now, assembleVars, mergeVars, filterVars, timeVars, docVars, table, runVars, saveVars, idVars, authorVars, linkVars, mediaVars, scrollVars, monitorVars, apiVars>>
notDoc      == <<loc, now, assembleVars, mergeVars, filterVars, countVars, timeVars, table, runVars, saveVars, idVars, authorVars, linkVars, mediaVars, scrollVars, monitorVars, apiVars>>
notRun      == <<loc, assembleVars, mergeVars, filterVars, countVars, timeVars, docVars, saveVars, idVars, authorVars, linkVars, mediaVars, scrollVars, monitorVars, apiVars>>
notSave     == <<loc, assembleVars, mergeVars, filterVars, countVars, timeVars, docVars, runVars, idVars, authorVars, linkVars, mediaVars, scrollVars, monitorVars, apiVars>>
notID      == <<loc, assembleVars, mergeVars, filterVars, countVars, timeVars, docVars, table, runVars, saveVars, authorVars, linkVars, mediaVars, scrollVars, monitorVars, apiVars>>
notAuthor   == <<loc, assembleVars, mergeVars, filterVars, countVars, timeVars, docVars, table, runVars, saveVars, idVars, linkVars, mediaVars, scrollVars, monitorVars, apiVars>>
notLinks    == <<loc, assembleVars, mergeVars, filterVars, countVars, timeVars, docVars, table, runVars, saveVars, idVars, authorVars, mediaVars, scrollVars, monitorVars, apiVars>>
notMedia    == <<loc, assembleVars, mergeVars, filterVars, countVars, timeVars, docVars, table, runVars, saveVars, idVars, authorVars, linkVars, scrollVars, monitorVars, apiVars>>
notScroll   == <<loc, assembleVars, mergeVars, filterVars, countVars, timeVars, docVars, table, runVars, saveVars, idVars, authorVars, linkVars, mediaVars, monitorVars, apiVars>>
notMonitor  == <<loc, assembleVars, mergeVars, filterVars, countVars, timeVars, docVars, table, runVars, saveVars, idVars, authorVars, linkVars, mediaVars, scrollVars, apiVars>>
notApi      == <<loc, assembleVars, mergeVars, filterVars, countVars, timeVars, docVars, table, runVars, saveVars, idVars, authorVars, linkVars, mediaVars, scrollVars, monitorVars>>
notTime     == <<loc, assembleVars, mergeVars, filterVars, countVars, docVars, table, runVars, saveVars, idVars, authorVars, linkVars, mediaVars, scrollVars, monitorVars, apiVars>>

-----------------------------------------------------------------------------
(* Bounds of the model *)

MaxCandidates == 1      \* candidate nodes per document
MaxPosts      == 3      \* posts handed to one merge
MaxNow        == 3      \* the clock stops advancing here
MaxBatch      == 2      \* posts handed to one BatchFilter
MaxConfigured == 1      \* predicates a filter configures (or all of them)
MaxFraction   == 2      \* digits of a count's decimal part
MaxGap        == 1      \* spaces between a count and what follows it
MaxCount      == 2      \* the N of "N units ago" (and 12)
MaxNodes      == 3      \* nodes of one document
MaxRefetched  == 2      \* nodes of a document the run fetches twice
MaxMatched    == 2      \* author selectors that find an element in a node
MaxAnchors    == 2      \* a elements of a node
MaxMedia      == 2      \* media elements of a node
MaxRuns       == 3      \* calls of RecordScrapingRun
MaxGroups     == 2      \* groups configured
MaxSaveErrors == 1      \* saves of one group that can fail
MaxPending    == 2      \* posts one caller of SavePost has to save

-----------------------------------------------------------------------------
(* Values *)

NilPost == [nil |-> TRUE]
NoCand  == [none |-> TRUE]
ZeroTime == 0

\* types.ScrapedPost (the fields the pipeline reads)
MkPost(id, groupID, author, content, url, postTime, likes, comments, shares, images, videos, links, mediaCount, postType) ==
    [ID |-> id, GroupID |-> groupID, AuthorName |-> author, Content |-> content,
     URL |-> url, PostTime |-> postTime, LikesCount |-> likes,
     CommentsCount |-> comments, SharesCount |-> shares, Images |-> images,
     Videos |-> videos, Links |-> links, MediaCount |-> mediaCount,
     PostType |-> postType]

-----------------------------------------------------------------------------
(* Identifier and URL *)

\* fmt.Sprintf("%s_%d", groupID, time.Now().UnixNano())
GeneratedID(groupID, nanos) == groupID \o "_" \o ToString(nanos)

\* (a variant that looks at the links before the attributes)
extractPostIDLinkFirst(c, groupID, clock) ==
    IF c.linkID # "" THEN c.linkID
    ELSE IF c.dataFtID # "" THEN c.dataFtID
    ELSE IF c.dataStoreID # "" THEN c.dataStoreID
    ELSE IF c.elemID # "" THEN c.elemID
    ELSE GeneratedID(groupID, clock)

\* extractPostID: the sources in the order the code tries them. A candidate
\* carries what each source yields on its node ("" when it yields nothing).
extractPostID(c, groupID, clock) ==
    IF c.dataFtID # "" THEN c.dataFtID
    ELSE IF c.dataStoreID # "" THEN c.dataStoreID
    ELSE IF c.linkID # "" THEN c.linkID
    ELSE IF c.elemID # "" THEN c.elemID
    ELSE GeneratedID(groupID, clock)

constructPostURL(groupID, postID) ==
    IF postID = "" THEN ""
    ELSE "https://www.facebook.com/groups/" \o groupID \o "/posts/" \o postID

-----------------------------------------------------------------------------
(* Post type, validity, assembly *)

\* (a variant that looks at the videos first)
determinePostTypeVideoFirst(images, videos, links) ==
    IF Len(videos) > 0 THEN "video"
    ELSE IF Len(images) > 0 THEN "image"
    ELSE IF Len(links) > 0 THEN "link"
    ELSE IF Len(images) > 0 /\ Len(videos) > 0 THEN "mixed"
    ELSE "text"

determinePostType(images, videos, links) ==
    IF Len(videos) > 0 /\ Len(images) > 0 THEN "mixed"
    ELSE IF Len(videos) > 0 THEN "video"
    ELSE IF Len(images) > 0 THEN "image"
    ELSE IF Len(links) > 0 THEN "link"
    ELSE "text"

\* (a variant that asks for an identifier only)
isValidPostIdentifierOnly(post) == post.ID # ""

isValidPost(post) ==
    /\ post.ID # ""
    /\ \/ post.Content # <<>>
       \/ post.AuthorName # <<>>
       \/ post.LikesCount > 0
       \/ post.MediaCount > 0

\* extractSinglePost: the post assembled from the candidate's fields, or nil
\* when it is not valid. c.postTime is what extractTimestamp left in
\* post.PostTime.
AssemblePost(c, groupID, clock) ==
    LET id == extractPostID(c, groupID, clock) IN
    MkPost(id, groupID, c.author, c.content, constructPostURL(groupID, id),
           c.postTime, c.likes, c.comments, c.shares, c.images, c.videos,
           c.links, Len(c.images) + Len(c.videos),
           determinePostType(c.images, c.videos, c.links))

extractSinglePost(c, groupID, clock) ==
    LET post == AssemblePost(c, groupID, clock) IN
    IF isValidPost(post) THEN post ELSE NilPost

-----------------------------------------------------------------------------
(* De-duplication *)

\* A key that tells apart the authors of one identifier.
dedupKeyWithAuthor(post) == <<post.ID, post.AuthorName>>

dedupKey(post) == post.ID

RECURSIVE removeDuplicateLoop(_, _, _)
removeDuplicateLoop(rest, seen, unique) ==
    IF rest = <<>> THEN unique
    ELSE LET post == Head(rest)
             key  == dedupKey(post)
         IN  IF key \notin seen
             THEN removeDuplicateLoop(Tail(rest), seen \cup {key}, Append(unique, post))
             ELSE removeDuplicateLoop(Tail(rest), seen, unique)

\* The last sighting of an identifier overwrites the kept one.
removeDuplicatePostsLastWins(ps) ==
    LET u == removeDuplicateLoop(ps, {}, <<>>)
        LastOf(id) == CHOOSE i \in 1..Len(ps) :
                        /\ ps[i].ID = id
                        /\ \A j \in (i+1)..Len(ps) : ps[j].ID # id
    IN  [i \in 1..Len(u) |-> ps[LastOf(u[i].ID)]]

\* New identifiers are put in front of the result instead of behind it.
RECURSIVE removeDuplicatePrependLoop(_, _, _)
removeDuplicatePrependLoop(rest, seen, unique) ==
    IF rest = <<>> THEN unique
    ELSE LET post == Head(rest)
             key  == dedupKey(post)
         IN  IF key \notin seen
             THEN removeDuplicatePrependLoop(Tail(rest), seen \cup {key}, <<post>> \o unique)
             ELSE removeDuplicatePrependLoop(Tail(rest), seen, unique)

removeDuplicatePostsPrepend(ps) == removeDuplicatePrependLoop(ps, {}, <<>>)

removeDuplicatePosts(ps) == removeDuplicateLoop(ps, {}, <<>>)

-----------------------------------------------------------------------------
(* Strings *)

UpperCase == <<"A","B","C","D","E","F","G","H","I","J","K","L","M",
               "N","O","P","Q","R","S","T","U","V","W","X","Y","Z">>
LowerCase == <<"a","b","c","d","e","f","g","h","i","j","k","l","m",
               "n","o","p","q","r","s","t","u","v","w","x","y","z">>

ToLowerChar(c) ==
    IF \E i \in 1..Len(UpperCase) : UpperCase[i] = c
    THEN LowerCase[CHOOSE i \in 1..Len(UpperCase) : UpperCase[i] = c]
    ELSE c

\* strings.ToLower
ToLower(s) == [i \in 1..Len(s) |-> ToLowerChar(s[i])]

\* strings.Contains
Contains(s, sub) ==
    \E i \in 0..(Len(s) - Len(sub)) : SubSeq(s, i + 1, i + Len(sub)) = sub

\* strings.EqualFold
EqualFold(a, b) == ToLower(a) = ToLower(b)

-----------------------------------------------------------------------------
(* Filtering *)

Second == 1
Minute == 60 * Second
Hour   == 60 * Minute
Day    == 24 * Hour

\* t.AddDate(0, 0, days) in UTC
AddDays(t, days) == t + days * Day

\* t.Before(u), t.After(u), t.IsZero()
Before(t, u) == t < u
After(t, u)  == t > u
IsZero(t)    == t = ZeroTime

containsAnyKeyword(content, keywords) ==
    IF Len(keywords) = 0 THEN TRUE
    ELSE \E i \in 1..Len(keywords) : Contains(ToLower(content), ToLower(keywords[i]))

\* An empty include list lets no post through.
ApplyFilterEmptyKeywordsReject(post, filter, clock) ==
    /\ ~(filter.MinLikes > 0 /\ post.LikesCount < filter.MinLikes)
    /\ ~(filter.MaxLikes > 0 /\ post.LikesCount > filter.MaxLikes)
    /\ ~(filter.MinComments > 0 /\ post.CommentsCount < filter.MinComments)
    /\ ~(filter.MinShares > 0 /\ post.SharesCount < filter.MinShares)
    /\ ~(filter.DaysBack > 0 /\ Before(post.PostTime, AddDays(clock, -filter.DaysBack)))
    /\ ~(~IsZero(filter.StartDate) /\ Before(post.PostTime, filter.StartDate))
    /\ ~(~IsZero(filter.EndDate) /\ After(post.PostTime, filter.EndDate))
    /\ \E i \in 1..Len(filter.Keywords) :
          Contains(ToLower(post.Content), ToLower(filter.Keywords[i]))
    /\ ~\E i \in 1..Len(filter.ExcludeKeywords) :
          Contains(ToLower(post.Content), ToLower(filter.ExcludeKeywords[i]))
    /\ (Len(filter.GroupIDs) > 0 =>
          \E i \in 1..Len(filter.GroupIDs) : post.GroupID = filter.GroupIDs[i])
    /\ (Len(filter.AuthorNames) > 0 =>
          \E i \in 1..Len(filter.AuthorNames) : EqualFold(post.AuthorName, filter.AuthorNames[i]))

\* The upper likes bound is taken for a lower one.
ApplyFilterMaxLikesInverted(post, filter, clock) ==
    /\ ~(filter.MinLikes > 0 /\ post.LikesCount < filter.MinLikes)
    /\ ~(filter.MaxLikes > 0 /\ post.LikesCount < filter.MaxLikes)
    /\ ~(filter.MinComments > 0 /\ post.CommentsCount < filter.MinComments)
    /\ ~(filter.MinShares > 0 /\ post.SharesCount < filter.MinShares)
    /\ ~(filter.DaysBack > 0 /\ Before(post.PostTime, AddDays(clock, -filter.DaysBack)))
    /\ ~(~IsZero(filter.StartDate) /\ Before(post.PostTime, filter.StartDate))
    /\ ~(~IsZero(filter.EndDate) /\ After(post.PostTime, filter.EndDate))
    /\ (Len(filter.Keywords) > 0 =>
          \E i \in 1..Len(filter.Keywords) :
              Contains(ToLower(post.Content), ToLower(filter.Keywords[i])))
    /\ ~\E i \in 1..Len(filter.ExcludeKeywords) :
          Contains(ToLower(post.Content), ToLower(filter.ExcludeKeywords[i]))
    /\ (Len(filter.GroupIDs) > 0 =>
          \E i \in 1..Len(filter.GroupIDs) : post.GroupID = filter.GroupIDs[i])
    /\ (Len(filter.AuthorNames) > 0 =>
          \E i \in 1..Len(filter.AuthorNames) : EqualFold(post.AuthorName, filter.AuthorNames[i]))

\* ApplyFilter: each test returns false at once; clock is what time.Now()
\* returns on line 32.
ApplyFilter(post, filter, clock) ==
    IF filter.MinLikes > 0 /\ post.LikesCount < filter.MinLikes THEN FALSE
    ELSE IF filter.MaxLikes > 0 /\ post.LikesCount > filter.MaxLikes THEN FALSE
    ELSE IF filter.MinComments > 0 /\ post.CommentsCount < filter.MinComments THEN FALSE
    ELSE IF filter.MinShares > 0 /\ post.SharesCount < filter.MinShares THEN FALSE
    ELSE IF filter.DaysBack > 0
            /\ Before(post.PostTime, AddDays(clock, -filter.DaysBack)) THEN FALSE
    ELSE IF ~IsZero(filter.StartDate) /\ Before(post.PostTime, filter.StartDate) THEN FALSE
    ELSE IF ~IsZero(filter.EndDate) /\ After(post.PostTime, filter.EndDate) THEN FALSE
    ELSE IF Len(filter.Keywords) > 0
            /\ ~\E i \in 1..Len(filter.Keywords) :
                  Contains(ToLower(post.Content), ToLower(filter.Keywords[i])) THEN FALSE
    ELSE IF Len(filter.ExcludeKeywords) > 0
            /\ \E i \in 1..Len(filter.ExcludeKeywords) :
                  Contains(ToLower(post.Content), ToLower(filter.ExcludeKeywords[i])) THEN FALSE
    ELSE IF Len(filter.GroupIDs) > 0
            /\ ~\E i \in 1..Len(filter.GroupIDs) : post.GroupID = filter.GroupIDs[i] THEN FALSE
    ELSE IF Len(filter.AuthorNames) > 0
            /\ ~\E i \in 1..Len(filter.AuthorNames) :
                  EqualFold(post.AuthorName, filter.AuthorNames[i]) THEN FALSE
    ELSE TRUE

\* types.FilterStats
NewStats(total) ==
    [TotalPosts |-> total, FilteredPosts |-> 0, LikesFiltered |-> 0,
     TimeFiltered |-> 0, KeywordFiltered |-> 0]

\* Only the first category a post fails is counted.
tallyPostFirstOnly(stats, post, filter, cutoffTime) ==
    LET passedLikes == filter.MinLikes = 0 \/ post.LikesCount >= filter.MinLikes
        passedTime == filter.DaysBack = 0 \/ After(post.PostTime, cutoffTime)
        passedKeywords == Len(filter.Keywords) = 0
                            \/ containsAnyKeyword(post.Content, filter.Keywords)
    IN  IF ~passedLikes THEN [stats EXCEPT !.LikesFiltered = @ + 1]
        ELSE IF ~passedTime THEN [stats EXCEPT !.TimeFiltered = @ + 1]
        ELSE IF ~passedKeywords THEN [stats EXCEPT !.KeywordFiltered = @ + 1]
        ELSE stats

\* BatchFilter, lines 114-126: the three tallies of one post.
tallyPost(stats, post, filter, cutoffTime) ==
    LET passedLikes == filter.MinLikes = 0 \/ post.LikesCount >= filter.MinLikes
        passedTime == filter.DaysBack = 0 \/ After(post.PostTime, cutoffTime)
        passedKeywords == Len(filter.Keywords) = 0
                            \/ containsAnyKeyword(post.Content, filter.Keywords)
    IN  [stats EXCEPT
            !.LikesFiltered   = IF passedLikes THEN @ ELSE @ + 1,
            !.TimeFiltered    = IF passedTime THEN @ ELSE @ + 1,
            !.KeywordFiltered = IF passedKeywords THEN @ ELSE @ + 1]

\* BatchFilter's loop. clocks[0] is time.Now() on line 110, clocks[i] what
\* time.Now() returns inside ApplyFilter for the i-th post.
RECURSIVE BatchFilterLoop(_, _, _, _, _, _, _)
BatchFilterLoop(ps, filter, clocks, cutoffTime, i, filtered, stats) ==
    IF i > Len(ps)
    THEN [filtered |-> filtered, stats |-> [stats EXCEPT !.FilteredPosts = Len(filtered)]]
    ELSE BatchFilterLoop(ps, filter, clocks, cutoffTime, i + 1,
            IF ApplyFilter(ps[i], filter, clocks[i]) THEN Append(filtered, ps[i])
            ELSE filtered,
            tallyPost(stats, ps[i], filter, cutoffTime))

BatchFilter(ps, filter, clocks) ==
    BatchFilterLoop(ps, filter, clocks, AddDays(clocks[0], -filter.DaysBack), 1,
                    <<>>, NewStats(Len(ps)))

-----------------------------------------------------------------------------
(* Input domains *)

Groups == {"g1"}

TxtHi  == <<"h", "i">>
TxtAnn == <<"A", "n", "n">>
TxtBob == <<"B", "o", "b">>

Img1 == [URL |-> "https://scontent.fb/p1.jpg", Type |-> "image"]
Vid1 == [URL |-> "https://video.fb/v1.mp4", Type |-> "video"]

\* What the identifier sources yield on a node.
IdSources ==
    { [dataFtID |-> "", dataStoreID |-> "", linkID |-> "", elemID |-> ""],
      [dataFtID |-> "101", dataStoreID |-> "", linkID |-> "", elemID |-> ""] }

\* likes, comments, shares found on a node: none, or one counter alone.
Engagements == { <<0, 0, 0>>, <<7, 0, 0>>, <<0, 3, 0>>, <<0, 0, 2>> }

\* images, videos, links found on a node.
Attachments ==
    { <<<<>>, <<>>, <<>>>>, <<<<>>, <<>>, <<"https://example.org/a">>>>,
      <<<<Img1>>, <<>>, <<>>>>, <<<<>>, <<Vid1>>, <<>>>>, <<<<Img1>>, <<Vid1>>, <<>>>> }

\* An attribute that is not there, one whose value does not parse, and one
\* whose value parses to the time t.
NoAttr    == [exists |-> FALSE, parses |-> FALSE, time |-> ZeroTime]
BadAttr   == [exists |-> TRUE, parses |-> FALSE, time |-> ZeroTime]
Attr(t)   == [exists |-> TRUE, parses |-> TRUE, time |-> t]

TxtTwoHoursAgo == <<"2"," ","h","o","u","r","s"," ","a","g","o">>
TxtJustNow     == <<"J","u","s","t"," ","n","o","w">>

\* Timestamp elements: one with a data-utime, one with a datetime, one with a
\* relative time as its text, one that has nothing extractTimestamp can read.
ElemUtime    == [utime |-> Attr(2), datetime |-> NoAttr, text |-> <<>>]
ElemDatetime == [utime |-> NoAttr, datetime |-> Attr(3), text |-> TxtJustNow]
ElemRelative == [utime |-> NoAttr, datetime |-> NoAttr, text |-> TxtTwoHoursAgo]
ElemUnparsed == [utime |-> BadAttr, datetime |-> BadAttr, text |-> TxtJustNow]

\* The first elements the timestamp selectors find on a node, in the order
\* of the selectors.
TimestampElements ==
    { <<>>, <<ElemUtime>>, <<ElemDatetime>>, <<ElemUnparsed>>,
      <<ElemUnparsed, ElemRelative>> }

\* A candidate node, as the field extractors see it.
Candidate(s, ct, au, ts, e, at) ==
    [dataFtID |-> s.dataFtID, dataStoreID |-> s.dataStoreID, linkID |-> s.linkID,
     elemID |-> s.elemID, content |-> ct, author |-> au, timestamps |-> ts,
     likes |-> e[1], comments |-> e[2], shares |-> e[3],
     images |-> at[1], videos |-> at[2], links |-> at[3]]

\* The candidates of the model: every combination of identifier source,
\* content, author, counters and attachments with a data-utime timestamp, and
\* every timestamp with every combination of identifier source, content and
\* author.
Candidates ==
    { Candidate(s, ct, au, <<ElemUtime>>, e, at) :
        s \in IdSources, ct \in {<<>>, TxtHi}, au \in {<<>>, TxtAnn},
        e \in Engagements, at \in Attachments }
    \cup
    { Candidate(s, ct, au, ts, <<7, 0, 0>>, <<<<>>, <<>>, <<>>>>) :
        s \in IdSources, ct \in {<<>>, TxtHi}, au \in {<<>>, TxtAnn},
        ts \in TimestampElements }

\* Posts that reach one merge: a platform identifier seen by both strategies,
\* a second one, and a generated identifier; the sightings differ in author,
\* content and counters.
MergeGeneratedIDs == {GeneratedID("g1", 7)}
MergeIDs == {"101", "102"} \cup MergeGeneratedIDs

MergePosts ==
    { MkPost(id, "g1", who[1], who[2], constructPostURL("g1", id), 1,
             e[1], e[2], e[3], <<>>, <<>>, <<>>, 0, "text") :
      id \in MergeIDs, who \in {<<TxtAnn, TxtHi>>, <<TxtBob, <<>>>>},
      e \in {<<5, 0, 1>>, <<12, 3, 0>>} }

-----------------------------------------------------------------------------
(* ScrapeGroup: collect, then removeDuplicatePosts *)

MergeInit ==
    /\ browserPosts = <<>>
    /\ staticPosts = <<>>
    /\ uniquePosts = <<>>
    /\ remerged = <<>>
    /\ mpc = "collect"

AppendBrowserPost ==
    /\ mpc = "collect"
    /\ staticPosts = <<>>
    /\ Len(browserPosts) < MaxPosts
    /\ \E p \in MergePosts : browserPosts' = Append(browserPosts, p)
    /\ UNCHANGED <<staticPosts, uniquePosts, remerged, mpc>>
    /\ UNCHANGED notMerge

AppendStaticPost ==
    /\ mpc = "collect"
    /\ Len(browserPosts) + Len(staticPosts) < MaxPosts
    /\ \E p \in MergePosts : staticPosts' = Append(staticPosts, p)
    /\ UNCHANGED <<browserPosts, uniquePosts, remerged, mpc>>
    /\ UNCHANGED notMerge

\* posts = append(posts, staticPosts...); uniquePosts := removeDuplicatePosts(posts)
RemoveDuplicates ==
    /\ mpc = "collect"
    /\ uniquePosts' = removeDuplicatePosts(browserPosts \o staticPosts)
    /\ mpc' = "merged"
    /\ UNCHANGED <<browserPosts, staticPosts, remerged>>
    /\ UNCHANGED notMerge

\* The de-duplication step applied to its own output.
RemoveDuplicatesAgain ==
    /\ mpc = "merged"
    /\ remerged' = removeDuplicatePosts(uniquePosts)
    /\ mpc' = "remerged"
    /\ UNCHANGED <<browserPosts, staticPosts, uniquePosts>>
    /\ UNCHANGED notMerge

-----------------------------------------------------------------------------
(* Filter inputs *)

FilterNow == 10 * Day

\* Post times around the DaysBack cutoff and the date bounds.
TOld == FilterNow - Day - 1
TCut == FilterNow - Day
TIn  == FilterNow - Day + 1
TNew == FilterNow

KwSale  == <<"s","a","l","e">>
KwSpam  == <<"S","p","a","m">>
TxtBigSale  == <<"B","i","g"," ","S","A","L","E">>
TxtSpamAd   == <<"s","p","a","m"," ","a","d">>
TxtSaleSpam == <<"s","a","l","e"," ","s","p","a","m">>
TxtAnnLower == <<"a","n","n">>

NoFilter ==
    [MinLikes |-> 0, MaxLikes |-> 0, MinComments |-> 0, MinShares |-> 0,
     DaysBack |-> 0, Keywords |-> <<>>, ExcludeKeywords |-> <<>>,
     GroupIDs |-> <<>>, AuthorNames |-> <<>>,
     StartDate |-> ZeroTime, EndDate |-> ZeroTime]

NumPredicates == Cardinality(DOMAIN NoFilter)

\* The filter that configures the predicates numbered in S.
FilterOf(S) ==
    [MinLikes        |-> IF 1 \in S THEN 5 ELSE 0,
     MaxLikes        |-> IF 2 \in S THEN 8 ELSE 0,
     MinComments     |-> IF 3 \in S THEN 2 ELSE 0,
     MinShares       |-> IF 4 \in S THEN 1 ELSE 0,
     DaysBack        |-> IF 5 \in S THEN 1 ELSE 0,
     StartDate       |-> IF 6 \in S THEN TCut ELSE ZeroTime,
     EndDate         |-> IF 7 \in S THEN TIn ELSE ZeroTime,
     Keywords        |-> IF 8 \in S THEN <<KwSale>> ELSE <<>>,
     ExcludeKeywords |-> IF 9 \in S THEN <<KwSpam>> ELSE <<>>,
     GroupIDs        |-> IF 10 \in S THEN <<"g1">> ELSE <<>>,
     AuthorNames     |-> IF 11 \in S THEN <<TxtAnn>> ELSE <<>>]

\* Filters with few predicates configured, the filter with all of them, and
\* two with a negative threshold.
Filters ==
    { FilterOf(S) : S \in { T \in SUBSET (1..NumPredicates) : Cardinality(T) <= MaxConfigured } }
    \cup { FilterOf(1..NumPredicates) }
    \cup { [NoFilter EXCEPT !.DaysBack = -1], [NoFilter EXCEPT !.MaxLikes = -1] }

FP(likes, comments, shares, postTime, content, groupID, author) ==
    MkPost("101", groupID, author, content, constructPostURL(groupID, "101"),
           postTime, likes, comments, shares, <<>>, <<>>, <<>>, 0, "text")

\* A post every filter of Filters passes, the posts that differ from it in one
\* field, and two that fail several predicates.
FilterPosts ==
    { FP(5, 2, 1, TIn, TxtBigSale, "g1", TxtAnnLower),
      FP(4, 2, 1, TIn, TxtBigSale, "g1", TxtAnnLower),
      FP(8, 2, 1, TIn, TxtBigSale, "g1", TxtAnnLower),
      FP(9, 2, 1, TIn, TxtBigSale, "g1", TxtAnnLower),
      FP(5, 1, 1, TIn, TxtBigSale, "g1", TxtAnnLower),
      FP(5, 2, 0, TIn, TxtBigSale, "g1", TxtAnnLower),
      FP(5, 2, 1, TOld, TxtBigSale, "g1", TxtAnnLower),
      FP(5, 2, 1, TCut, TxtBigSale, "g1", TxtAnnLower),
      FP(5, 2, 1, TNew, TxtBigSale, "g1", TxtAnnLower),
      FP(5, 2, 1, TIn, TxtSpamAd, "g1", TxtAnnLower),
      FP(5, 2, 1, TIn, TxtSaleSpam, "g1", TxtAnnLower),
      FP(5, 2, 1, TIn, TxtHi, "g1", TxtAnnLower),
      FP(5, 2, 1, TIn, TxtBigSale, "g2", TxtAnnLower),
      FP(5, 2, 1, TIn, TxtBigSale, "g1", TxtBob),
      FP(4, 1, 0, TOld, TxtHi, "g2", TxtBob),
      FP(4, 2, 1, TCut, TxtSpamAd, "g1", TxtAnnLower) }

-----------------------------------------------------------------------------
(* BatchFilter *)

FilterIdle ==
    /\ fsFilter = NoFilter
    /\ fposts = <<>>
    /\ filteredPosts = <<>>
    /\ filterStats = NewStats(0)
    /\ clockReads = <<>>
    /\ fpc = "collect"

FilterInit ==
    /\ fsFilter \in Filters
    /\ fposts = <<>>
    /\ filteredPosts = <<>>
    /\ filterStats = NewStats(0)
    /\ clockReads = <<>>
    /\ fpc = "collect"

AddFilterPost ==
    /\ fpc = "collect"
    /\ Len(fposts) < MaxBatch
    /\ \E p \in FilterPosts : fposts' = Append(fposts, p)
    /\ UNCHANGED <<now, fsFilter, filteredPosts, filterStats, clockReads, fpc>>
    /\ UNCHANGED notFilter

\* One call of BatchFilter. The clock may advance by a second during the
\* call: the reads for the posts after the k-th see the later time.
RunBatchFilter ==
    /\ fpc = "collect"
    /\ \E k \in 0..Len(fposts) :
         LET clk == [i \in 0..Len(fposts) |-> IF i > k THEN now + Second ELSE now]
             r   == BatchFilter(fposts, fsFilter, clk)
         IN  /\ filteredPosts' = r.filtered
             /\ filterStats' = r.stats
             /\ clockReads' = clk
             /\ now' = clk[Len(fposts)]
    /\ fpc' = "done"
    /\ UNCHANGED <<fsFilter, fposts>>
    /\ UNCHANGED notFilter

-----------------------------------------------------------------------------
(* Characters, digits and regular-expression matching *)

Digits == <<"0","1","2","3","4","5","6","7","8","9">>

IsDigit(c)  == \E d \in 1..10 : Digits[d] = c
DigitVal(c) == (CHOOSE d \in 1..10 : Digits[d] = c) - 1

\* The decimal digits of n, none for 0.
RECURSIVE DecimalDigits(_)
DecimalDigits(n) ==
    IF n = 0 THEN <<>> ELSE Append(DecimalDigits(n \div 10), Digits[(n % 10) + 1])

\* \s of the regular expressions; strings.TrimSpace trims these as well.
Whitespace == {" ", "\t", "\n", "\r", "\f"}
IsSpace(c) == c \in Whitespace

RECURSIVE TrimLeft(_)
TrimLeft(s) == IF s # <<>> /\ IsSpace(Head(s)) THEN TrimLeft(Tail(s)) ELSE s

RECURSIVE TrimRight(_)
TrimRight(s) ==
    IF s # <<>> /\ IsSpace(s[Len(s)]) THEN TrimRight(SubSeq(s, 1, Len(s) - 1)) ELSE s

TrimSpace(s) == TrimRight(TrimLeft(s))

ReplaceAll(s, old, new) == SelectSeq(s, LAMBDA c : c # old)

\* strconv.Atoi of a string of digits. The texts of the model hold no run of
\* more than nine digits, so the conversion never overflows.
RECURSIVE Atoi(_)
Atoi(ds) ==
    IF ds = <<>> THEN 0
    ELSE 10 * Atoi(SubSeq(ds, 1, Len(ds) - 1)) + DigitVal(ds[Len(ds)])

\* The end of the longest run of digits that starts at i (a greedy \d+): the
\* index just after it.
DigitsEnd(s, i) ==
    CHOOSE j \in i..(Len(s) + 1) :
        /\ \A k \in i..(j - 1) : IsDigit(s[k])
        /\ j = Len(s) + 1 \/ ~IsDigit(s[j])

\* The same for whitespace (a greedy \s*).
SpacesEnd(s, i) ==
    CHOOSE j \in i..(Len(s) + 1) :
        /\ \A k \in i..(j - 1) : IsSpace(s[k])
        /\ j = Len(s) + 1 \/ ~IsSpace(s[j])

NoMatch == [matched |-> FALSE]

\* (\d+(?:\.\d+)?)\s*([km]) at position i. Each run is the longest one: a
\* shorter run would leave a digit (or the point, or a space) where the
\* expression needs what follows the run, so backtracking finds no other match.
reWithSuffixAt(s, i) ==
    IF ~IsDigit(s[i]) THEN NoMatch
    ELSE LET j == DigitsEnd(s, i)
             hasFrac == j + 1 <= Len(s) /\ s[j] = "." /\ IsDigit(s[j + 1])
             k == IF hasFrac THEN DigitsEnd(s, j + 1) ELSE j
             l == SpacesEnd(s, k)
         IN  IF l <= Len(s) /\ s[l] \in {"k", "m"}
             THEN [matched |-> TRUE, num |-> SubSeq(s, i, k - 1), suffix |-> s[l]]
             ELSE NoMatch

\* ,\d{3} at position p
CommaGroupAt(s, p) ==
    /\ p + 3 <= Len(s)
    /\ s[p] = ","
    /\ \A k \in (p + 1)..(p + 3) : IsDigit(s[k])

RECURSIVE CommaGroupsEnd(_, _)
CommaGroupsEnd(s, p) == IF CommaGroupAt(s, p) THEN CommaGroupsEnd(s, p + 4) ELSE p

\* (\d{1,3}(?:,\d{3})+) at position i: the longest leading run of one to three
\* digits that a group follows, then as many groups as there are.
reWithCommaAt(s, i) ==
    LET D == { d \in 1..3 : /\ i + d - 1 <= Len(s)
                            /\ \A k \in i..(i + d - 1) : IsDigit(s[k])
                            /\ CommaGroupAt(s, i + d) }
    IN  IF D = {} THEN NoMatch
        ELSE LET d == CHOOSE x \in D : \A y \in D : y <= x
             IN  [matched |-> TRUE, num |-> SubSeq(s, i, CommaGroupsEnd(s, i + d) - 1)]

\* (\d+) at position i
reSimpleAt(s, i) ==
    IF IsDigit(s[i])
    THEN [matched |-> TRUE, num |-> SubSeq(s, i, DigitsEnd(s, i) - 1)]
    ELSE NoMatch

\* The words of parseRelativeTime
WMinute == <<"m","i","n","u","t","e">>
WHour   == <<"h","o","u","r">>
WDay    == <<"d","a","y">>
WWeek   == <<"w","e","e","k">>
WMonth  == <<"m","o","n","t","h">>
WYear   == <<"y","e","a","r">>
WAgo    == <<"a","g","o">>

\* (minute|hour|day|week|month|year), in the order of the alternation
TimeUnits == <<WMinute, WHour, WDay, WWeek, WMonth, WYear>>

HasPrefixAt(s, i, w) ==
    /\ i + Len(w) - 1 <= Len(s)
    /\ SubSeq(s, i, i + Len(w) - 1) = w

\* (\d+)\s*(minute|hour|day|week|month|year)s?\s*ago at position i. The runs
\* are the longest ones and the optional s is taken when it is there: no
\* unit is a prefix of another, and giving a character back leaves a digit,
\* a space or the s where the expression needs the next item.
reRelativeAt(s, i) ==
    IF ~IsDigit(s[i]) THEN NoMatch
    ELSE LET j == DigitsEnd(s, i)
             k == SpacesEnd(s, j)
             U == { u \in 1..Len(TimeUnits) : HasPrefixAt(s, k, TimeUnits[u]) }
         IN  IF U = {} THEN NoMatch
             ELSE LET u == CHOOSE x \in U : \A y \in U : x <= y
                      e == k + Len(TimeUnits[u])
                      f == IF e <= Len(s) /\ s[e] = "s" THEN e + 1 ELSE e
                      a == SpacesEnd(s, f)
                  IN  IF HasPrefixAt(s, a, WAgo)
                      THEN [matched |-> TRUE, count |-> SubSeq(s, i, j - 1),
                            unit |-> TimeUnits[u]]
                      ELSE NoMatch

\* The expressions of extractNumberFromText and parseRelativeTime at position i
MatchAt(re, s, i) ==
    CASE re = "reWithSuffix" -> reWithSuffixAt(s, i)
      [] re = "reWithComma"  -> reWithCommaAt(s, i)
      [] re = "reSimple"     -> reSimpleAt(s, i)
      [] re = "reRelative"   -> reRelativeAt(s, i)

\* re.FindStringSubmatch(s): the match starting at the leftmost position that
\* has one.
FindStringSubmatch(re, s) ==
    LET I == { i \in 1..Len(s) : MatchAt(re, s, i).matched }
    IN  IF I = {} THEN NoMatch
        ELSE MatchAt(re, s, CHOOSE i \in I : \A j \in I : i <= j)

-----------------------------------------------------------------------------
(* float64: a 53-bit significand, most significant bit first, and the number *)
(* of its bits that lie before the binary point                              *)

MantissaBits == 53

FloatZero == [bits |-> <<>>, pt |-> 0]

RECURSIVE Pow10(_)
Pow10(k) == IF k = 0 THEN 1 ELSE 10 * Pow10(k - 1)

\* The binary digits of n, most significant first; none for 0.
RECURSIVE IntBits(_)
IntBits(n) == IF n = 0 THEN <<>> ELSE Append(IntBits(n \div 2), n % 2)

RECURSIVE BitsInt(_)
BitsInt(b) ==
    IF b = <<>> THEN 0 ELSE 2 * BitsInt(SubSeq(b, 1, Len(b) - 1)) + b[Len(b)]

RECURSIVE Increment(_)
Increment(b) ==
    IF b = <<>> THEN <<1>>
    ELSE IF b[Len(b)] = 0 THEN SubSeq(b, 1, Len(b) - 1) \o <<1>>
    ELSE Increment(SubSeq(b, 1, Len(b) - 1)) \o <<0>>

\* Round to nearest, ties to even: bits holds more than MantissaBits
\* significant bits of the exact value, sticky says that non-zero bits follow.
RoundToEven(bits, sticky, pt) ==
    LET kept  == SubSeq(bits, 1, MantissaBits)
        guard == bits[MantissaBits + 1]
        rest  == sticky \/ \E i \in (MantissaBits + 2)..Len(bits) : bits[i] = 1
        up    == guard = 1 /\ (rest \/ kept[MantissaBits] = 1)
        inc   == Increment(kept)
    IN  IF ~up THEN [bits |-> kept, pt |-> pt]
        ELSE IF Len(inc) > MantissaBits
        THEN [bits |-> SubSeq(inc, 1, MantissaBits), pt |-> pt + 1]
        ELSE [bits |-> inc, pt |-> pt]

\* The binary expansion of r/d (0 <= r < d), continuing the significant bits
\* acc until one more than the significand holds; skipped counts the zeros
\* after the point that precede the first significant bit.
RECURSIVE FracBits(_, _, _, _)
FracBits(r, d, acc, skipped) ==
    IF Len(acc) > MantissaBits THEN [bits |-> acc, skipped |-> skipped, rem |-> r]
    ELSE LET b == IF 2 * r >= d THEN 1 ELSE 0
         IN  IF acc = <<>> /\ b = 0
             THEN FracBits(2 * r, d, acc, skipped + 1)
             ELSE FracBits(2 * r - b * d, d, Append(acc, b), skipped)

\* strconv.ParseFloat(str, 64) of digits with an optional decimal part: the
\* float64 nearest to the decimal value.
ParseFloat(str) ==
    LET dot == DigitsEnd(str, 1)
        ip  == SubSeq(str, 1, dot - 1)
        fp  == SubSeq(str, dot + 1, Len(str))
        n   == Atoi(ip \o fp)
        d   == Pow10(Len(fp))
        ib  == IntBits(n \div d)
        e   == FracBits(n % d, d, ib, 0)
    IN  IF n = 0 THEN FloatZero
        ELSE RoundToEven(e.bits, e.rem # 0, IF ib = <<>> THEN -e.skipped ELSE Len(ib))

\* The exact product of a significand and a small integer c < 2^20, computed
\* LimbBits bits at a time from the least significant end.
LimbBits == 10

FixedBits(v, n) == [i \in 1..n |-> (v \div 2^(n - i)) % 2]

RECURSIVE MulBits(_, _, _)
MulBits(b, c, carry) ==
    IF b = <<>> THEN IntBits(carry)
    ELSE LET n == IF Len(b) < LimbBits THEN Len(b) ELSE LimbBits
             t == BitsInt(SubSeq(b, Len(b) - n + 1, Len(b))) * c + carry
         IN  MulBits(SubSeq(b, 1, Len(b) - n), c, t \div 2^n) \o FixedBits(t % 2^n, n)

\* num * c in float64, c an integer that float64 represents exactly.
MulFloat(f, c) ==
    IF f = FloatZero THEN FloatZero
    ELSE LET p == MulBits(f.bits, c, 0)
         IN  RoundToEven(Append(p, 0), FALSE, f.pt + Len(p) - MantissaBits)

\* int(f): the integer part.
TruncFloat(f) ==
    IF f = FloatZero \/ f.pt <= 0 THEN 0
    ELSE IF f.pt <= MantissaBits THEN BitsInt(SubSeq(f.bits, 1, f.pt))
    ELSE BitsInt(f.bits \o [i \in 1..(f.pt - MantissaBits) |-> 0])

-----------------------------------------------------------------------------
(* extractNumberFromText *)

extractNumberFromText(text) ==
    LET t == ToLower(TrimSpace(text))
        withSuffix == FindStringSubmatch("reWithSuffix", t)
        withComma  == FindStringSubmatch("reWithComma", t)
        simple     == FindStringSubmatch("reSimple", t)
    IN  IF withSuffix.matched
        THEN IF withSuffix.suffix = "k"
             THEN TruncFloat(MulFloat(ParseFloat(withSuffix.num), 1000))
             ELSE TruncFloat(MulFloat(ParseFloat(withSuffix.num), 1000000))
        ELSE IF withComma.matched THEN Atoi(ReplaceAll(withComma.num, ",", ""))
        ELSE IF simple.matched THEN Atoi(simple.num)
        ELSE 0

\* Texts of the engagement elements: a lead-in, an integer, a decimal part,
\* whitespace, and what follows.
NumLeads == { <<>>, <<" ">>, <<"V","i","e","w"," ">> }

NumIntegers ==
    { <<>>, <<"1">>, <<"2">>, <<"3">>, <<"1","2">>, <<"3","2">>, <<"6","4">>,
      <<"5",",","3","0","0">>, <<"1",",","2","3","4",",","5","6","7">> }

FractionDigits == {"0", "1", "3", "5"}

NumFractions ==
    {<<>>} \cup { <<".">> \o ds : ds \in UNION { [1..k -> FractionDigits] : k \in 1..MaxFraction } }

NumGaps == { [i \in 1..k |-> " "] : k \in 0..MaxGap }

NumTails ==
    { <<>>, <<"K">>, <<"k">>, <<"M">>, <<"m">>, <<"B">>, <<"b">>,
      <<"l","i","k","e","s">>, <<"m","o","r","e">> }

NumShapes ==
    [lead : NumLeads, int : NumIntegers, frac : NumFractions, gap : NumGaps, tail : NumTails]

ShapeText(sh) == sh.lead \o sh.int \o sh.frac \o sh.gap \o sh.tail

NoShape == [lead |-> <<>>, int |-> <<>>, frac |-> <<>>, gap |-> <<>>, tail |-> <<>>]

CountInit ==
    /\ numShape = NoShape
    /\ numText = <<>>
    /\ numResult = 0
    /\ npc = "idle"

\* An engagement element's text (or aria-label) is read.
ReadCountText ==
    /\ npc = "idle"
    /\ \E sh \in NumShapes :
         /\ numShape' = sh
         /\ numText' = ShapeText(sh)
    /\ npc' = "read"
    /\ UNCHANGED numResult
    /\ UNCHANGED notCount

ExtractNumber ==
    /\ npc = "read"
    /\ numResult' = extractNumberFromText(numText)
    /\ npc' = "done"
    /\ UNCHANGED <<numShape, numText>>
    /\ UNCHANGED notCount

-----------------------------------------------------------------------------
(* The calendar of time.Time. A time is a number of seconds since            *)
(* 2001-01-01 00:00:00 UTC, a Monday; the Gregorian calendar repeats every   *)
(* 400 years, so this is the calendar Go counts from 0001-01-01.             *)
(* The value 0 stands for the zero time.Time; no clock of the model reads   *)
(* the epoch itself.                                                       *)

IsLeap(year) == year % 4 = 0 /\ (year % 100 # 0 \/ year % 400 = 0)

\* Days from the epoch to January 1 of the year.
YearDays(year) ==
    365 * (year - 2001)
        + ((year - 1) \div 4 - (year - 1) \div 100 + (year - 1) \div 400)
        - (2000 \div 4 - 2000 \div 100 + 2000 \div 400)

\* Days of a non-leap year before the first of each month
DaysBefore == <<0, 31, 59, 90, 120, 151, 181, 212, 243, 273, 304, 334>>

\* Days from the epoch to the first of the month (month in 1..12).
MonthDays(year, month) ==
    YearDays(year) + DaysBefore[month] + (IF IsLeap(year) /\ month >= 3 THEN 1 ELSE 0)

Years == 1981..2040

YearOf(t) ==
    CHOOSE y \in Years : YearDays(y) * Day <= t /\ t < YearDays(y + 1) * Day

MonthOf(t) ==
    CHOOSE m \in 1..12 :
        /\ MonthDays(YearOf(t), m) * Day <= t
        /\ m = 12 \/ t < MonthDays(YearOf(t), m + 1) * Day

DayOf(t) == (t \div Day) - MonthDays(YearOf(t), MonthOf(t)) + 1

ClockOf(t) == t % Day

\* time.Date in UTC: a month outside 1..12 carries into the year, a day
\* outside the month carries into the following (or preceding) months.
Date(year, month, day, clock) ==
    LET y == year + ((month - 1) \div 12)
        m == ((month - 1) % 12) + 1
    IN  (MonthDays(y, m) + day - 1) * Day + clock

\* A time.Location: the offset from UTC, in seconds, before the first
\* transition, and the offset from each transition on.
UTC == [base |-> 0, transitions |-> <<>>]

\* Central European time with its changes from 2023 to 2025.
Berlin ==
    [base |-> Hour,
     transitions |-> << [at |-> Date(2023, 3, 26, Hour),  offset |-> 2 * Hour],
                        [at |-> Date(2023, 10, 29, Hour), offset |-> Hour],
                        [at |-> Date(2024, 3, 31, Hour),  offset |-> 2 * Hour],
                        [at |-> Date(2024, 10, 27, Hour), offset |-> Hour],
                        [at |-> Date(2025, 3, 30, Hour),  offset |-> 2 * Hour] >>]

Zones == {UTC, Berlin}

DistantPast   == -(2^30)
DistantFuture == 2^30

\* l.lookup(t): the offset in use at t, and the period [start, end) it is in use.
Lookup(l, t) ==
    LET tr == l.transitions
        n  == Cardinality({ i \in 1..Len(tr) : tr[i].at <= t })
    IN  [offset |-> IF n = 0 THEN l.base ELSE tr[n].offset,
         start  |-> IF n = 0 THEN DistantPast ELSE tr[n].at,
         end    |-> IF n = Len(tr) THEN DistantFuture ELSE tr[n + 1].at]

\* What the clock of location l shows at t, as seconds since the epoch's
\* midnight on that clock.
Wall(t, l) == t + Lookup(l, t).offset

\* time.Date(year, month, day, hour, min, sec, 0, l): the offset is looked up
\* at the wall time taken as UTC, and again when that misses the period.
DateIn(year, month, day, clock, l) ==
    LET unix == Date(year, month, day, clock)
        z    == Lookup(l, unix)
        utc  == unix - z.offset
        offset == IF utc < z.start \/ utc >= z.end THEN Lookup(l, utc).offset
                  ELSE z.offset
    IN  IF z.offset # 0 THEN unix - offset ELSE unix

\* (a variant that takes every time as UTC)
AddDateInUTC(t, years, months, days, l) ==
    Date(YearOf(t) + years, MonthOf(t) + months, DayOf(t) + days, ClockOf(t))

\* t.AddDate(years, months, days), t a time of location l
AddDate(t, years, months, days, l) ==
    LET w == Wall(t, l)
    IN  DateIn(YearOf(w) + years, MonthOf(w) + months, DayOf(w) + days, ClockOf(w), l)

\* t.Weekday(): Sunday is 0.
Weekday(t, l) == ((Wall(t, l) \div Day) + 1) % 7

-----------------------------------------------------------------------------
(* parseRelativeTime *)

WYesterday == <<"y","e","s","t","e","r","d","a","y">>
WToday     == <<"t","o","d","a","y">>

daysOfWeek ==
    { <<<<"m","o","n","d","a","y">>, 1>>,
      <<<<"t","u","e","s","d","a","y">>, 2>>,
      <<<<"w","e","d","n","e","s","d","a","y">>, 3>>,
      <<<<"t","h","u","r","s","d","a","y">>, 4>>,
      <<<<"f","r","i","d","a","y">>, 5>>,
      <<<<"s","a","t","u","r","d","a","y">>, 6>>,
      <<<<"s","u","n","d","a","y">>, 0>> }

\* The times parseRelativeTime can return for the text when time.Now() is
\* clock, a time of location l. There is more than one only when the text names several days of
\* the week: the map of day names is ranged over in no fixed order, and the
\* first name found in the text decides.
parseRelativeTime(text, clock, l) ==
    LET t == ToLower(TrimSpace(text))
        matches == FindStringSubmatch("reRelative", t)
        count == Atoi(matches.count)
        unit == matches.unit
        named == { e \in daysOfWeek : Contains(t, e[1]) }
        diff(weekday) ==
            LET d == (Weekday(clock, l) - weekday + 7) % 7
            IN  IF d = 0 THEN 7 ELSE d
    IN  IF matches.matched
        THEN { CASE unit = WMinute -> clock - count * Minute
                 [] unit = WHour   -> clock - count * Hour
                 [] unit = WDay    -> AddDate(clock, 0, 0, -count, l)
                 [] unit = WWeek   -> AddDate(clock, 0, 0, -count * 7, l)
                 [] unit = WMonth  -> AddDate(clock, 0, -count, 0, l)
                 [] unit = WYear   -> AddDate(clock, -count, 0, 0, l) }
        ELSE IF Contains(t, WYesterday) THEN { AddDate(clock, 0, 0, -1, l) }
        ELSE IF Contains(t, WToday) THEN { clock }
        ELSE IF named = {} THEN { ZeroTime }
        ELSE { AddDate(clock, 0, 0, -diff(e[2]), l) : e \in named }

\* The clock when a timestamp text is parsed: the ends of months of
\* different lengths, a leap day, the end of a year, a day in mid-month.
TimeNows ==
    { Date(2024, 3, 31, 12 * Hour),
      Date(2024, 2, 29, 8 * Hour + 30 * Minute),
      Date(2023, 10, 31, 23 * Hour + 59 * Minute + 59 * Second),
      Date(2024, 12, 31, 0),
      Date(2025, 1, 15, 18 * Hour + 5 * Second) }

\* Texts of the timestamp elements: "N unit(s) ago", or a phrase.
TimeCounts == { IF n = 0 THEN <<"0">> ELSE DecimalDigits(n) : n \in 0..MaxCount } \cup { <<"1","2">> }

TimeUnitWords ==
    { <<"s","e","c","o","n","d">>, WMinute, WHour, <<"H","o","u","r">>, WDay, WWeek, WMonth, WYear }

TimePhrases ==
    { <<"Y","e","s","t","e","r","d","a","y">>,
      <<"T","o","d","a","y">>,
      <<"J","u","s","t"," ","n","o","w">>,
      <<"M","o","n","d","a","y">>,
      <<"S","u","n","d","a","y">>,
      <<"W","e","d","n","e","s","d","a","y">>,
      <<"F","r","i","d","a","y"," ","-"," ","S","u","n","d","a","y">> }

TimeShapes ==
    [count : TimeCounts, gap : NumGaps, unit : TimeUnitWords,
     plural : { <<>>, <<"s">> }, rest : { <<" ","a","g","o">> }]
    \cup [count : {<<>>}, gap : {<<>>}, unit : TimePhrases, plural : {<<>>}, rest : {<<>>}]

TimeShapeText(sh) == sh.count \o sh.gap \o sh.unit \o sh.plural \o sh.rest

NoTimeShape == [count |-> <<>>, gap |-> <<>>, unit |-> <<>>, plural |-> <<>>, rest |-> <<>>]

TimeInit ==
    /\ timeShape = NoTimeShape
    /\ timeText = <<>>
    /\ parsedTime = ZeroTime
    /\ tpc = "idle"

\* A timestamp element's text is read.
ReadTimeText ==
    /\ tpc = "idle"
    /\ \E sh \in TimeShapes :
         /\ timeShape' = sh
         /\ timeText' = TimeShapeText(sh)
    /\ tpc' = "read"
    /\ UNCHANGED <<now, parsedTime>>
    /\ UNCHANGED notTime

ParseRelativeTime ==
    /\ tpc = "read"
    /\ parsedTime' \in parseRelativeTime(timeText, now, loc)
    /\ tpc' = "done"
    /\ UNCHANGED <<now, timeShape, timeText>>
    /\ UNCHANGED notTime

-----------------------------------------------------------------------------
(* extractTimestamp *)

\* The values extractTimestamp can leave in post.PostTime: for each selector's
\* element in turn the data-utime, the datetime, the text as a relative
\* time; the first that parses is taken, and nothing is assigned when none
\* does.
RECURSIVE extractTimestamp(_, _, _)
extractTimestamp(elems, clock, l) ==
    IF elems = <<>> THEN { ZeroTime }
    ELSE LET timestamp == Head(elems)
             relativeParsed == parseRelativeTime(timestamp.text, clock, l)
         IN  IF timestamp.utime.exists /\ timestamp.utime.parses
             THEN { timestamp.utime.time }
             ELSE IF timestamp.datetime.exists /\ timestamp.datetime.parses
             THEN { timestamp.datetime.time }
             ELSE { t \in relativeParsed : ~IsZero(t) }
                  \cup (IF ZeroTime \in relativeParsed
                        THEN extractTimestamp(Tail(elems), clock, l)
                        ELSE {})

\* The candidate with the field extractTimestamp fills.
WithPostTime(c, postTime) ==
    [f \in (DOMAIN c) \cup {"postTime"} |-> IF f = "postTime" THEN postTime ELSE c[f]]

-----------------------------------------------------------------------------
(* extractPosts: one candidate node per step *)

AssembleInit ==
    /\ cand = NoCand
    /\ lastPost = NilPost
    /\ posts = <<>>
    /\ nProcessed = 0

\* One iteration of elements.Each in extractPosts: extractSinglePost on the
\* node, then the append guarded by isValidPost. time.Now() may or may not
\* have advanced since it was read last.
ExtractCandidate ==
    /\ nProcessed < MaxCandidates
    /\ \E c \in Candidates, g \in Groups, d \in 0..1 :
         /\ now + d <= MaxNow
         /\ now' = now + d
         /\ cand' = c
         /\ \E postTime \in extractTimestamp(c.timestamps, now + d, loc) :
              lastPost' = extractSinglePost(WithPostTime(c, postTime), g, now + d)
         /\ posts' = IF lastPost' # NilPost /\ isValidPost(lastPost')
                     THEN Append(posts, lastPost')
                     ELSE posts
    /\ nProcessed' = nProcessed + 1
    /\ UNCHANGED notAssemble

-----------------------------------------------------------------------------
(* extractPosts over a whole document *)

postContainerSelectors ==
    << "div[role='article']", "div[data-testid='post_container']",
       "div[data-ft*='top_level_post_id']", "div.story_body_container",
       "div[id^='structured_composer_async_']", "article._55wo._5rgr._5gh8",
       "div.userContentWrapper", "div[id^='m_story_permalink_view']",
       "div[data-store*='story_fbid']" >>

contentIndicators ==
    << "div[data-ft]", "div[id^='feed_subtitle_']", "span[dir='auto']",
       "div.story_body_container", "div._5rgt" >>

\* An attribute of an element: absent, or present with a value.
NoValue    == [exists |-> FALSE, value |-> <<>>]
Value(v)   == [exists |-> TRUE, value |-> v]

TxtTopLevelPostID == <<"t","o","p","_","l","e","v","e","l","_","p","o","s","t","_","i","d">>
TxtStoryFbid      == <<"s","t","o","r","y","_","f","b","i","d">>
TxtContentID      == <<"c","o","n","t","e","n","t","_","i","d">>
TxtStory_         == <<"s","t","o","r","y","_">>
TxtPost_          == <<"p","o","s","t","_">>
TxtFeed_          == <<"f","e","e","d","_">>

\* (a variant that looks at the components only)
looksLikePostContainerByComponents(n) ==
    \/ {"author", "content"} \subseteq n.has
    \/ {"timestamp", "engagement"} \subseteq n.has

\* looksLikePostContainer, on a container n: n.has holds the kinds of
\* component ("author", "timestamp", "content", "engagement") its four
\* Find calls come back non-empty for.
looksLikePostContainer(n) ==
    IF /\ n.dataFt.exists
       /\ \/ Contains(n.dataFt.value, TxtTopLevelPostID)
          \/ Contains(n.dataFt.value, TxtStoryFbid)
          \/ Contains(n.dataFt.value, TxtContentID)
    THEN TRUE
    ELSE IF /\ n.id.exists
            /\ \/ Contains(n.id.value, TxtStory_)
               \/ Contains(n.id.value, TxtPost_)
               \/ Contains(n.id.value, TxtFeed_)
    THEN TRUE
    ELSE LET hasAuthor     == "author" \in n.has
             hasTimestamp  == "timestamp" \in n.has
             hasContent    == "content" \in n.has
             hasEngagement == "engagement" \in n.has
         IN  (hasAuthor /\ hasContent) \/ (hasTimestamp /\ hasEngagement)

\* The loop over likeSelectors in extractEngagementMetrics: texts holds, for
\* each selector that finds an element, its aria-label (when it has one) and
\* then its text; the first that gives a count above 0 is post.LikesCount.
RECURSIVE extractLikes(_)
extractLikes(texts) ==
    IF texts = <<>> THEN 0
    ELSE LET likeCount == extractNumberFromText(Head(texts)) IN
         IF likeCount > 0 THEN likeCount ELSE extractLikes(Tail(texts))

\* The node as extractSinglePost's field extractors see it, at the clock
\* reading they get: one candidate for each value extractTimestamp can leave.
NodeCandidates(n, clock, l) ==
    { WithPostTime(Candidate(n.ids, n.content, n.author, n.timestamps,
                             <<likes, 0, 0>>, <<n.images, <<>>, <<>>>>), t) :
        likes \in {extractLikes(n.likeTexts)},
        t \in extractTimestamp(n.timestamps, clock, l) }

\* post := fs.extractSinglePost(s, groupID, groupName), and what the
\* guarded append adds to posts. The timestamps of the nodes of the model
\* have one reading each.
AppendedPosts(n, groupID, clock, l) ==
    CHOOSE appended \in
        { IF post # NilPost /\ isValidPost(post) THEN <<post>> ELSE <<>> :
            post \in { extractSinglePost(c, groupID, clock) :
                         c \in NodeCandidates(n, clock, l) } } : TRUE

\* No run of extractPosts calls extractSinglePost more often than this: on
\* each node once for each selector that matches it, and once in the
\* fallback.
RECURSIVE CallBound(_)
CallBound(document) ==
    IF document = <<>> THEN 0
    ELSE Cardinality(Head(document).matches) + 1 + CallBound(Tail(document))

\* What the guarded append adds for node i of the document when
\* extractSinglePost is called on it after calls earlier calls: the clock
\* is read at clock0 + tick * calls.
Extracted(document, groupID, clock0, tick, l) ==
    [i \in 1..Len(document), calls \in 0..CallBound(document) |-> AppendedPosts(document[i], groupID, clock0 + tick * calls, l)]

\* doc.Find(selector): the nodes of the document the selector matches, in
\* document order, as indices into the document.
RECURSIVE FindFrom(_, _, _)
FindFrom(document, selector, i) ==
    IF i > Len(document) THEN <<>>
    ELSE (IF selector \in document[i].matches THEN <<i>> ELSE <<>>)
         \o FindFrom(document, selector, i + 1)

Find(document, selector) == FindFrom(document, selector, 1)

\* What one run of extractPosts did: the posts it appended, and a trace of
\* its calls of extractSinglePost, <<strategy, node>>, strategy being the
\* index of the container selector or 0 for the fallback.
NoRun == [posts |-> <<>>, trace |-> <<>>]

Calls(k, elements) == [i \in 1..Len(elements) |-> <<k, elements[i]>>]

\* elements.Each(...): extractSinglePost on each element and the guarded
\* append; calls counts the calls made before.
RECURSIVE EachElement(_, _, _)
EachElement(extracted, elements, calls) ==
    IF elements = <<>> THEN <<>>
    ELSE extracted[Head(elements), calls]
         \o EachElement(extracted, Tail(elements), calls + 1)

\* (a variant that stops at the first selector that matches an element)
RECURSIVE SelectorLoopStopsAtMatch(_, _, _, _)
SelectorLoopStopsAtMatch(document, extracted, k, calls) ==
    IF k > Len(postContainerSelectors) THEN NoRun
    ELSE LET elements == Find(document, postContainerSelectors[k]) IN
         IF Len(elements) = 0
         THEN SelectorLoopStopsAtMatch(document, extracted, k + 1, calls)
         ELSE [posts |-> EachElement(extracted, elements, calls),
               trace |-> Calls(k, elements)]

\* The loop over postContainerSelectors, from selector k on.
RECURSIVE SelectorLoop(_, _, _, _)
SelectorLoop(document, extracted, k, calls) ==
    IF k > Len(postContainerSelectors) THEN NoRun
    ELSE LET elements == Find(document, postContainerSelectors[k]) IN
         IF Len(elements) = 0
         THEN SelectorLoop(document, extracted, k + 1, calls)
         ELSE LET found == EachElement(extracted, elements, calls)
                  later == SelectorLoop(document, extracted, k + 1,
                                        calls + Len(elements))
              IN  IF Len(found) > 0
                  THEN [posts |-> found, trace |-> Calls(k, elements)]
                  ELSE [posts |-> later.posts,
                        trace |-> Calls(k, elements) \o later.trace]

\* doc.Find(indicator), each element replaced by its nearest div[id]
\* ancestor: n.indicators holds the indicators that match an element whose
\* nearest such ancestor is n. Elements without one are passed over.
RECURSIVE ContainersFrom(_, _, _)
ContainersFrom(document, indicator, i) ==
    IF i > Len(document) THEN <<>>
    ELSE (IF indicator \in document[i].indicators THEN <<i>> ELSE <<>>)
         \o ContainersFrom(document, indicator, i + 1)

\* The containers extractPostsFallback comes to, over all the indicators.
RECURSIVE FallbackVisits(_, _)
FallbackVisits(document, j) ==
    IF j > Len(contentIndicators) THEN <<>>
    ELSE ContainersFrom(document, contentIndicators[j], 1)
         \o FallbackVisits(document, j + 1)

\* The containers that get past the processedIDs test and pass
\* looksLikePostContainer, in the order they are come to.
RECURSIVE FallbackContainers(_, _, _)
FallbackContainers(document, visits, processedIDs) ==
    IF visits = <<>> THEN <<>>
    ELSE LET postContainer == document[Head(visits)] IN
         IF ~postContainer.id.exists \/ postContainer.id.value \in processedIDs
         THEN FallbackContainers(document, Tail(visits), processedIDs)
         ELSE (IF looksLikePostContainer(postContainer)
               THEN <<Head(visits)>> ELSE <<>>)
              \o FallbackContainers(document, Tail(visits),
                                    processedIDs \cup {postContainer.id.value})

extractPostsFallback(document, extracted, calls) ==
    LET containers == FallbackContainers(document, FallbackVisits(document, 1), {})
    IN  [posts |-> EachElement(extracted, containers, calls),
         trace |-> Calls(0, containers)]

\* extractPosts: the selectors in order until one has given posts, and the
\* fallback when none has.
extractPosts(document, extracted) ==
    LET run      == SelectorLoop(document, extracted, 1, 0)
        fallback == extractPostsFallback(document, extracted, Len(run.trace))
    IN  IF Len(run.posts) = 0
        THEN [posts |-> fallback.posts, trace |-> run.trace \o fallback.trace]
        ELSE run

-----------------------------------------------------------------------------
(* Documents *)

TxtJaneDoe == <<"J","a","n","e"," ","D","o","e">>
Txt2p5K    == <<"2",".","5","K">>
Txt2c500   == <<"2",",","5","0","0">>
TxtLike    == <<"L","i","k","e">>
Txt7       == <<"7">>

Node(matches, indicators, id, dataFt, has, ids, content, author, timestamps, likeTexts, images) ==
    [matches |-> matches, indicators |-> indicators, id |-> id,
     dataFt |-> dataFt, has |-> has, ids |-> ids, content |-> content,
     author |-> author, timestamps |-> timestamps, likeTexts |-> likeTexts,
     images |-> images]

NoIDs == [dataFtID |-> "", dataStoreID |-> "", linkID |-> "", elemID |-> ""]

AllComponents == {"author", "timestamp", "content", "engagement"}

\* An article whose data-ft names its post: likes "2.5K", author "Jane Doe",
\* posted two hours ago.
FullPost ==
    Node({"div[role='article']", "div[data-ft*='top_level_post_id']"}, {},
         NoValue, Value(TxtTopLevelPostID), AllComponents,
         [dataFtID |-> "101", dataStoreID |-> "", linkID |-> "", elemID |-> ""],
         TxtHi, TxtJaneDoe, <<ElemRelative>>, <<Txt2p5K>>, <<>>)

\* The same post met again: likes "2,500", and an image.
DuplicatePost ==
    Node({"div[role='article']", "div[data-ft*='top_level_post_id']"}, {},
         NoValue, Value(TxtTopLevelPostID), AllComponents,
         [dataFtID |-> "101", dataStoreID |-> "", linkID |-> "", elemID |-> ""],
         TxtHi, TxtJaneDoe, <<ElemRelative>>, <<Txt2c500>>, <<Img1>>)

\* An article that holds a "Like" button and nothing else.
LikeButton ==
    Node({"div[role='article']"}, {}, NoValue, NoValue, {"engagement"}, NoIDs,
         <<>>, <<>>, <<>>, <<TxtLike>>, <<>>)

\* A post of the current layout, with a permalink.
ContainerPost ==
    Node({"div[data-testid='post_container']"}, {}, NoValue, NoValue,
         {"author", "content", "timestamp"},
         [dataFtID |-> "", dataStoreID |-> "", linkID |-> "102", elemID |-> ""],
         TxtHi, TxtAnn, <<ElemUtime>>, <<>>, <<>>)

\* Containers no selector matches, each the nearest div[id] of an element
\* an indicator matches: a "Like" button in a div whose id has "feed_" in
\* it, and in one whose id has not; an author with content; a timestamp with
\* a count of likes; an author with a count of likes; a "Like" button and
\* its count in a div whose data-ft names a content_id.
FeedLike ==
    Node({}, {"div[data-ft]"}, Value(TxtFeed_ \o <<"9">>), NoValue,
         {"engagement"}, NoIDs, <<>>, <<>>, <<>>, <<TxtLike>>, <<>>)
PlainLike ==
    Node({}, {"div[data-ft]"}, Value(<<"c","1">>), NoValue,
         {"engagement"}, NoIDs, <<>>, <<>>, <<>>, <<TxtLike>>, <<>>)
AuthorContent ==
    Node({}, {"span[dir='auto']"}, Value(<<"c","2">>), NoValue,
         {"author", "content"}, NoIDs, TxtHi, TxtBob, <<>>, <<>>, <<>>)
TimeEngagement ==
    Node({}, {"div[data-ft]", "div._5rgt"}, Value(<<"c","3">>), NoValue,
         {"timestamp", "engagement"}, NoIDs, <<>>, <<>>, <<ElemUtime>>,
         <<TxtLike, Txt7>>, <<>>)
AuthorEngagement ==
    Node({}, {"div._5rgt"}, Value(<<"c","4">>), NoValue,
         {"author", "engagement"}, NoIDs, <<>>, TxtBob, <<>>, <<Txt7>>, <<>>)

TrackedLike ==
    Node({}, {"div._5rgt"}, Value(<<"c","5">>), Value(TxtContentID),
         {"engagement"},
         [dataFtID |-> "103", dataStoreID |-> "", linkID |-> "", elemID |-> ""],
         <<>>, <<>>, <<>>, <<TxtLike, Txt7>>, <<>>)

Nodes ==
    { FullPost, DuplicatePost, LikeButton, ContainerPost, FeedLike, PlainLike,
      AuthorContent, TimeEngagement, AuthorEngagement, TrackedLike }

-----------------------------------------------------------------------------
(* scrapeWithStaticMethod's parse of one document, and ScrapeGroup's merge *)

DocInit ==
    /\ doc = <<>>
    /\ docRun = NoRun
    /\ docAgain = NoRun
    /\ docUnique = <<>>
    /\ dpc = "build"

\* The document grows by one node.
AddNode ==
    /\ dpc = "build"
    /\ Len(doc) < MaxNodes
    /\ \E n \in Nodes : doc' = Append(doc, n)
    /\ UNCHANGED <<docRun, docAgain, docUnique, dpc>>
    /\ UNCHANGED notDoc

\* posts := fs.extractPosts(doc, groupID, groupName), on the document of
\* the first fetch of the run that succeeds; and once more when a later fetch
\* of the run (scrapeWithStaticMethod after the browser, or its next URL)
\* brings the same markup: ScrapeGroup appends these posts to the ones it
\* has. The clock may have advanced between the fetches.
ExtractPosts ==
    /\ dpc \in {"build", "extracted"}
    /\ dpc = "extracted" => Len(doc) <= MaxRefetched
    /\ \E g \in Groups, tick \in 0..1 :
         \E clock0 \in {IF dpc = "build" THEN now ELSE now + tick} :
           \E extracted \in {Extracted(doc, g, clock0, tick, loc)} :
             \E run \in {extractPosts(doc, extracted)} :
                /\ now' = clock0 + tick * Len(run.trace)
                /\ IF dpc = "build"
                   THEN docRun' = run /\ docAgain' = docAgain /\ dpc' = "extracted"
                   ELSE docRun' = docRun /\ docAgain' = run /\ dpc' = "again"
    /\ UNCHANGED <<doc, docUnique>>
    /\ UNCHANGED <<loc, assembleVars, mergeVars, filterVars, countVars, timeVars, table, runVars, saveVars, idVars, authorVars, linkVars, mediaVars, scrollVars, monitorVars, apiVars>>

\* uniquePosts := fs.removeDuplicatePosts(posts)
MergeExtracted ==
    /\ dpc \in {"extracted", "again"}
    /\ docUnique' = removeDuplicatePosts(docRun.posts \o docAgain.posts)
    /\ dpc' = "merged"
    /\ UNCHANGED <<doc, docRun, docAgain>>
    /\ UNCHANGED notDoc

-----------------------------------------------------------------------------
(* The posts table and SavePost *)

\* saveScrapedPost's models.Post for a post.
NewDBPost(post, groupID, groupName, clock) ==
    [GroupID |-> groupID, GroupName |-> groupName, PostID |-> post.ID,
     AuthorName |-> post.AuthorName, Content |-> post.Content,
     PostURL |-> post.URL, Timestamp |-> post.PostTime,
     Likes |-> post.LikesCount, Comments |-> post.CommentsCount,
     Shares |-> post.SharesCount, PostType |-> post.PostType,
     ScrapedAt |-> clock, Images |-> post.Images, Videos |-> post.Videos,
     Links |-> post.Links, MediaCount |-> post.MediaCount]

\* The row INSERT gives a models.Post at the database's clock reading; the
\* serial id column is left out.
InsertedRow(p, clock) ==
    [group_id |-> p.GroupID, group_name |-> p.GroupName, post_id |-> p.PostID,
     author_name |-> p.AuthorName, content |-> p.Content,
     post_url |-> p.PostURL, timestamp |-> p.Timestamp, likes |-> p.Likes,
     comments |-> p.Comments, shares |-> p.Shares, post_type |-> p.PostType,
     scraped_at |-> p.ScrapedAt, images |-> p.Images, videos |-> p.Videos,
     links |-> p.Links, media_count |-> p.MediaCount,
     created_at |-> clock, updated_at |-> clock]

\* ON CONFLICT (post_id) DO UPDATE SET ..., and the trigger that stamps
\* updated_at before every update.
UpdatedRow(row, p, clock) ==
    [row EXCEPT !.likes = p.Likes, !.comments = p.Comments,
                !.shares = p.Shares, !.scraped_at = p.ScrapedAt,
                !.images = p.Images, !.videos = p.Videos, !.links = p.Links,
                !.media_count = p.MediaCount, !.updated_at = clock]

\* (a variant that inserts without looking for a conflict)
SavePostInsertOnly(rows, p, clock) == rows \cup {InsertedRow(p, clock)}

\* SavePost: one INSERT ... ON CONFLICT (post_id) DO UPDATE statement, which
\* the database runs atomically.
SavePost(rows, p, clock) ==
    IF \E row \in rows : row.post_id = p.PostID
    THEN { IF row.post_id = p.PostID THEN UpdatedRow(row, p, clock) ELSE row :
             row \in rows }
    ELSE rows \cup {InsertedRow(p, clock)}

TableInit == table = {}

-----------------------------------------------------------------------------
(* main's loop over the groups, and ScrapeGroup *)

RateLimit == 2      \* cfg.Facebook.RateLimit.DelayBetweenRequests, in seconds
FetchTime == 1      \* the seconds a fetch takes

RunGroups == [i \in 1..MaxGroups |-> "g" \o ToString(i)]

StaticURLs == <<"https://m.facebook.com/groups/", "https://mbasic.facebook.com/groups/", "https://www.facebook.com/groups/">>

\* The filter NewFacebookScraper builds.
NewFilter == [NoFilter EXCEPT !.MinLikes = 1, !.DaysBack = 5]

RP(id, likes) ==
    MkPost(id, "", TxtAnn, TxtHi, "", FilterNow, likes, 0, 0, <<>>, <<>>, <<>>, 0, "text")

\* What a strategy's fetch can come to: an error, or the posts extractPosts
\* finds in the document fetched.
Failed(err)   == [err |-> err, posts |-> <<>>]
Fetched(ps)   == [err |-> "nil", posts |-> ps]

BrowserOutcomes ==
    { Failed("browser scraping failed"),
      Fetched(<<RP("101", 7), RP("102", 0)>>),
      Fetched(<<RP("101", 7), RP("102", 0), RP("103", 1), RP("104", 1), RP("105", 1)>>) }

StaticOutcomes ==
    { Failed("transport error"), Failed("non-200 status"), Failed("not HTML"),
      Fetched(<<RP("101", 9), RP("102", 3)>>) }

Fetch(strategy, url, sent, o) ==
    [strategy |-> strategy, url |-> url, sent |-> sent,
     done |-> sent + FetchTime, err |-> o.err, found |-> Len(o.posts)]

RunInit ==
    /\ groupIdx = 1
    /\ rpc = "group"
    /\ urlIdx = 1
    /\ groupPosts = <<>>
    /\ fetches = <<>>
    /\ results = <<>>

\* main calls ScrapeGroup, which starts with getGroupName: on an error the
\* name is made from the group's identifier.
GetGroupName ==
    /\ rpc = "group"
    /\ \E err \in {"nil", "unexpected status code"} :
         fetches' = <<Fetch("about", 0, now, Failed(err))>>
    /\ now' = now + FetchTime
    /\ groupPosts' = <<>>
    /\ urlIdx' = 1
    /\ rpc' = "browser"
    /\ UNCHANGED <<groupIdx, results, table>>
    /\ UNCHANGED notRun

\* (a variant that goes to the static method after an error only)
ScrapeWithBrowserStaticOnError ==
    /\ rpc = "browser"
    /\ \E o \in BrowserOutcomes :
         /\ fetches' = Append(fetches, Fetch("browser", 0, now, o))
         /\ groupPosts' = o.posts
         /\ rpc' = IF o.err # "nil" THEN "static" ELSE "finish"
    /\ now' = now + FetchTime
    /\ UNCHANGED <<groupIdx, urlIdx, results, table>>
    /\ UNCHANGED notRun

\* posts, err := fs.scrapeWithBrowserScraper(groupID, groupName), and the
\* test that sends ScrapeGroup to the static method.
ScrapeWithBrowser ==
    /\ rpc = "browser"
    /\ \E o \in BrowserOutcomes :
         /\ fetches' = Append(fetches, Fetch("browser", 0, now, o))
         /\ groupPosts' = o.posts
         /\ rpc' = IF o.err # "nil" \/ Len(o.posts) < 5 THEN "static" ELSE "finish"
    /\ now' = now + FetchTime
    /\ UNCHANGED <<groupIdx, urlIdx, results, table>>
    /\ UNCHANGED notRun

\* (a variant whose first failure ends the loop over the URLs)
StaticFetchStopsAtFailure ==
    /\ rpc = "static"
    /\ \E o \in StaticOutcomes :
         /\ fetches' = Append(fetches, Fetch("static", urlIdx, now, o))
         /\ groupPosts' = groupPosts \o o.posts
         /\ now' = IF o.err = "nil" THEN now + FetchTime + RateLimit
                                    ELSE now + FetchTime
         /\ rpc' = IF urlIdx = Len(StaticURLs) \/ o.err # "nil"
                   THEN "finish" ELSE "static"
    /\ urlIdx' = urlIdx + 1
    /\ UNCHANGED <<groupIdx, results, table>>
    /\ UNCHANGED notRun

\* One iteration of scrapeWithStaticMethod's loop over the URLs: every
\* failure goes on to the next URL; a document that was fetched and parsed
\* gives its posts, and is followed by time.Sleep(fs.rateLimit).
StaticFetch ==
    /\ rpc = "static"
    /\ \E o \in StaticOutcomes :
         /\ fetches' = Append(fetches, Fetch("static", urlIdx, now, o))
         /\ groupPosts' = groupPosts \o o.posts
         /\ now' = IF o.err = "nil" THEN now + FetchTime + RateLimit
                                    ELSE now + FetchTime
    /\ urlIdx' = urlIdx + 1
    /\ rpc' = IF urlIdx = Len(StaticURLs) THEN "finish" ELSE "static"
    /\ UNCHANGED <<groupIdx, results, table>>
    /\ UNCHANGED notRun

\* The loop that saves the filtered posts: the saves at the indices in
\* failing return an error, which is logged.
RECURSIVE SaveAll(_, _, _, _, _, _)
SaveAll(rows, ps, failing, i, groupID, clock) ==
    IF i > Len(ps) THEN rows
    ELSE SaveAll(IF i \in failing THEN rows
                 ELSE SavePost(rows, NewDBPost(ps[i], groupID, groupID, clock), clock),
                 ps, failing, i + 1, groupID, clock)

\* The rest of ScrapeGroup: removeDuplicatePosts, BatchFilter, the saves,
\* and return nil.
FinishGroup ==
    /\ rpc = "finish"
    /\ LET unique == removeDuplicatePosts(groupPosts)
           batch  == BatchFilter(unique, NewFilter, [i \in 0..Len(unique) |-> now])
       IN  \E failing \in SUBSET (1..Len(batch.filtered)) :
             /\ Cardinality(failing) <= MaxSaveErrors
             /\ table' = SaveAll(table, batch.filtered, failing, 1,
                                 RunGroups[groupIdx], now)
             /\ results' = Append(results,
                    [group |-> RunGroups[groupIdx],
                     saved |-> Len(batch.filtered) - Cardinality(failing),
                     err |-> "nil", started |-> fetches[1].sent,
                     returned |-> now])
    /\ rpc' = "sleep"
    /\ UNCHANGED <<now, groupIdx, urlIdx, groupPosts, fetches>>
    /\ UNCHANGED notRun

\* main: ScrapeGroup returned nil, so the loop sleeps and goes on to the
\* next group.
SleepBetweenGroups ==
    /\ rpc = "sleep"
    /\ results[Len(results)].err = "nil"
    /\ now' = now + RateLimit
    /\ groupIdx' = groupIdx + 1
    /\ rpc' = IF groupIdx = Len(RunGroups) THEN "done" ELSE "group"
    /\ UNCHANGED <<urlIdx, groupPosts, fetches, results, table>>
    /\ UNCHANGED notRun

-----------------------------------------------------------------------------
(* Concurrent callers of SavePost *)

Callers == {"c1", "c2"}

\* The posts the callers save: two identifiers, each scraped twice with
\* different counters.
DBPosts ==
    { NewDBPost(RP(id, likes), "g1", "g1", scrapedAt) :
        id \in {"101", "102"}, likes \in {5}, scrapedAt \in {1} }
    \cup { NewDBPost(RP("101", 12), "g1", "g1", 2) }

RECURSIVE SeqsUpTo(_, _)
SeqsUpTo(S, n) ==
    IF n = 0 THEN {<<>>}
    ELSE SeqsUpTo(S, n - 1)
         \cup { Append(q, x) : q \in { r \in SeqsUpTo(S, n - 1) : Len(r) = n - 1 }, x \in S }

SaveIdle ==
    /\ pending = [c \in Callers |-> <<>>]
    /\ saveLog = <<>>

SaveInit ==
    /\ pending \in [Callers -> SeqsUpTo(DBPosts, MaxPending)]
    /\ saveLog = <<>>

\* One caller's next db.SavePost(dbPost): the statement runs atomically at
\* the database, whose clock may have advanced.
CallSavePost ==
    /\ \E c \in Callers, d \in 0..1 :
         /\ pending[c] # <<>>
         /\ now' = now + d
         /\ table' = SavePost(table, Head(pending[c]), now')
         /\ saveLog' = Append(saveLog, Head(pending[c]))
         /\ pending' = [pending EXCEPT ![c] = Tail(pending[c])]
    /\ UNCHANGED notSave

-----------------------------------------------------------------------------
(* extractPostID on the attributes and links of a node *)

\* A Go string of the page as the string the identifier is kept as.
RECURSIVE StringOf(_)
StringOf(s) == IF s = <<>> THEN "" ELSE Head(s) \o StringOf(Tail(s))

\* What json.Unmarshal leaves in a map[string]interface{}: per key a string
\* or a value of another type. obj is the set of the object's members.
JString(key, text) == [key |-> key, isString |-> TRUE, text |-> text]
JNumber(key, text) == [key |-> key, isString |-> FALSE, text |-> text]

\* An attribute that holds JSON: absent, not parsable, or an object.
NoJSON        == [exists |-> FALSE, valid |-> FALSE, obj |-> {}]
BadJSON       == [exists |-> TRUE, valid |-> FALSE, obj |-> {}]
JSONAttr(obj) == [exists |-> TRUE, valid |-> TRUE, obj |-> obj]

\* dataFtObj[key].(string) with ok && postID != "": the string, "" otherwise.
StringMember(obj, key) ==
    IF \E m \in obj : m.key = key /\ m.isString /\ m.text # <<>>
    THEN (CHOOSE m \in obj : m.key = key /\ m.isString /\ m.text # <<>>).text
    ELSE <<>>

\* for _, key := range []string{...}: the first key with a non-empty string.
RECURSIVE FirstStringMember(_, _)
FirstStringMember(obj, keys) ==
    IF keys = <<>> THEN <<>>
    ELSE IF StringMember(obj, Head(keys)) # <<>> THEN StringMember(obj, Head(keys))
    ELSE FirstStringMember(obj, Tail(keys))

dataFtKeys == <<"top_level_post_id", "content_id", "story_fbid">>

\* Method 1: the data-ft attribute.
dataFtPostID(attr) ==
    IF attr.exists /\ attr.valid THEN FirstStringMember(attr.obj, dataFtKeys)
    ELSE <<>>

\* Method 2: the data-store attribute.
dataStorePostID(attr) ==
    IF attr.exists /\ attr.valid THEN StringMember(attr.obj, "story_fbid")
    ELSE <<>>

TxtPermalinkSlash == <<"p","e","r","m","a","l","i","n","k","/">>
TxtPostsSlash     == <<"p","o","s","t","s","/">>
TxtStoryFbidEq    == <<"s","t","o","r","y","_","f","b","i","d","=">>
TxtFbidEq         == <<"f","b","i","d","=">>
TxtSlashPermalinkSlash == <<"/","p","e","r","m","a","l","i","n","k","/">>
TxtSlashPostsSlash     == <<"/","p","o","s","t","s","/">>

\* The patterns of Method 3, each a literal followed by (\d+).
linkPatterns == <<TxtPermalinkSlash, TxtPostsSlash, TxtStoryFbidEq, TxtFbidEq>>

\* regexp FindStringSubmatch of literal(\d+) on href: the digits of the
\* leftmost match, none when there is no match.
LiteralDigits(href, literal) ==
    LET starts == { i \in 1..Len(href) :
                      /\ HasPrefixAt(href, i, literal)
                      /\ i + Len(literal) <= Len(href)
                      /\ IsDigit(href[i + Len(literal)]) }
    IN  IF starts = {} THEN <<>>
        ELSE LET i == CHOOSE k \in starts : \A j \in starts : k <= j
                 d == i + Len(literal)
             IN  SubSeq(href, d, DigitsEnd(href, d) - 1)

\* for _, pattern := range patterns: the first pattern that matches.
RECURSIVE FirstPattern(_, _)
FirstPattern(href, patterns) ==
    IF patterns = <<>> THEN <<>>
    ELSE IF LiteralDigits(href, Head(patterns)) # <<>>
    THEN LiteralDigits(href, Head(patterns))
    ELSE FirstPattern(href, Tail(patterns))

\* s.Find("a[href*='/permalink/'], a[href*='/posts/'], a[href*='story_fbid=']")
\* on the hrefs of the links of the node, in document order.
PermalinkLinks(hrefs) ==
    SelectSeq(hrefs, LAMBDA href : \/ Contains(href, TxtSlashPermalinkSlash)
                                   \/ Contains(href, TxtSlashPostsSlash)
                                   \/ Contains(href, TxtStoryFbidEq))

\* The Each over the links: postIDFromLink is set by the first link one of
\* the patterns matches, and the links after it are passed over.
RECURSIVE EachLink(_)
EachLink(links) ==
    IF links = <<>> THEN <<>>
    ELSE IF FirstPattern(Head(links), linkPatterns) # <<>>
    THEN FirstPattern(Head(links), linkPatterns)
    ELSE EachLink(Tail(links))

\* Method 3: the links.
postIDFromLink(hrefs) == EachLink(PermalinkLinks(hrefs))

IsLower(c) == \E i \in 1..Len(LowerCase) : LowerCase[i] = c
IsHex(c)   == IsDigit(c) \/ c \in {"a", "b", "c", "d", "e", "f"}

Txt_id_ == <<"_","i","d","_">>

\* [a-z]+_[a-z]+_id_([a-f0-9]+) with "_id_" at position p of id: letters, an
\* underscore, letters up to p, and a hexadecimal digit after it.
reElementAt(id, p) ==
    /\ HasPrefixAt(id, p, Txt_id_)
    /\ p + 4 <= Len(id) /\ IsHex(id[p + 4])
    /\ \E u \in 2..(p - 2) :
         /\ id[u] = "_"
         /\ IsLower(id[u - 1])
         /\ \A k \in (u + 1)..(p - 1) : IsLower(id[k])

HexEnd(s, i) ==
    CHOOSE j \in i..(Len(s) + 1) :
        /\ \A k \in i..(j - 1) : IsHex(s[k])
        /\ j = Len(s) + 1 \/ ~IsHex(s[j])

\* Method 4: the id attribute. The leftmost match is the one with the first
\* "_id_" the expression fits, and the group is the longest run after it.
elementPostID(attr) ==
    LET id     == attr.value
        places == { p \in 1..Len(id) : reElementAt(id, p) }
    IN  IF ~attr.exists \/ places = {} THEN <<>>
        ELSE LET p == CHOOSE k \in places : \A j \in places : k <= j
             IN  SubSeq(id, p + 4, HexEnd(id, p + 4) - 1)

\* What the four methods yield on a node.
NodeIdSources(n) ==
    [dataFtID    |-> StringOf(dataFtPostID(n.dataFt)),
     dataStoreID |-> StringOf(dataStorePostID(n.dataStore)),
     linkID      |-> StringOf(postIDFromLink(n.hrefs)),
     elemID      |-> StringOf(elementPostID(n.id))]

IdNode(dataFt, dataStore, hrefs, id) ==
    [dataFt |-> dataFt, dataStore |-> dataStore, hrefs |-> hrefs, id |-> id]

\* The values of data-ft, of data-store, of the links and of the id the
\* nodes of the model have.
Txt101 == <<"1","0","1">>
Txt103 == <<"1","0","3">>
Txt106 == <<"1","0","6">>
Txt107 == <<"1","0","7">>

DataFts ==
    { NoJSON, BadJSON, JSONAttr({}),
      JSONAttr({JString("top_level_post_id", Txt101), JString("story_fbid", Txt106)}),
      JSONAttr({JNumber("top_level_post_id", Txt101), JString("content_id", Txt103),
                JString("story_fbid", Txt106)}),
      JSONAttr({JString("top_level_post_id", <<>>), JString("story_fbid", Txt106)}),
      JSONAttr({JNumber("story_fbid", Txt106)}) }

DataStores ==
    { NoJSON, BadJSON, JSONAttr({JString("story_fbid", Txt107)}),
      JSONAttr({JString("top_level_post_id", Txt101)}) }

HrefPermalink == <<"/","g","/","p","e","r","m","a","l","i","n","k","/","1","0","2","/">>
HrefPostsName == <<"/","a","n","n","/","p","o","s","t","s","/","p","i","n","n","e","d">>
HrefPostsFbid == <<"/","p","o","s","t","s","/","x","?","f","b","i","d","=","1","0","4">>
HrefStoryFbid == <<"/","s",".","p","h","p","?","s","t","o","r","y","_","f","b","i","d","=","1","0","5","&","i","d","=","4">>
HrefPhotoFbid == <<"/","p","h","o","t","o",".","p","h","p","?","f","b","i","d","=","1","0","9">>

Hrefs ==
    { <<>>, <<HrefPermalink>>, <<HrefPostsName>>, <<HrefPostsName, HrefStoryFbid>>,
      <<HrefPhotoFbid>>, <<HrefPostsFbid, HrefPermalink>> }

IdHyperfeed == <<"h","y","p","e","r","f","e","e","d","_","s","t","o","r","y","_","i","d","_","5","e","8","d","7","f">>
IdPermalinkView == <<"m","_","s","t","o","r","y","_","p","e","r","m","a","l","i","n","k","_","v","i","e","w">>
IdNumbered == <<"u","_","0","_","i","d","_","7">>

ElementIDs == { NoValue, Value(IdHyperfeed), Value(IdPermalinkView), Value(IdNumbered) }

IdNodes ==
    { IdNode(dataFt, dataStore, hrefs, id) :
        dataFt \in DataFts, dataStore \in DataStores, hrefs \in Hrefs,
        id \in ElementIDs }

NoIdNode == IdNode(NoJSON, NoJSON, <<>>, NoValue)

IdIdle == idNode = NoIdNode /\ returnedID = "" /\ ipc = "idle"
IdInit == IdIdle

\* extractSinglePost comes to a node.
ReadNode ==
    /\ ipc \in {"idle", "returned"}
    /\ \E n \in IdNodes : idNode' = n
    /\ returnedID' = ""
    /\ ipc' = "read"
    /\ UNCHANGED <<now, notID>>

\* extractPostID on the node; time.Now() may or may not have advanced since
\* it was read last.
ExtractPostID ==
    /\ ipc = "read"
    /\ \E g \in Groups, d \in 0..1 :
         /\ now + d <= MaxNow
         /\ now' = now + d
         /\ returnedID' = extractPostID(NodeIdSources(idNode), g, now + d)
    /\ ipc' = "returned"
    /\ UNCHANGED <<idNode, notID>>

-----------------------------------------------------------------------------
(* extractAuthorName *)

authorSelectors ==
    << "h3 a", "strong a", "[data-testid='story-subtitle'] a",
       "a[data-hovercard]", "h5 a", ".profileLink" >>

\* s.Find(selector).First() on a node: no element, or an element with a text.
NoElement     == [found |-> FALSE, text |-> <<>>]
Element(text) == [found |-> TRUE, text |-> text]

TxtHttp    == <<"h","t","t","p">>
TxtLikeLower == <<"l","i","k","e">>
TxtComment == <<"c","o","m","m","e","n","t">>
TxtFollow  == <<"f","o","l","l","o","w">>

\* The test "Skip if this doesn't look like a name", negated. The texts of
\* the model are ASCII, so that len(name) is their number of characters.
LooksLikeName(name) ==
    ~ \/ name = <<>>
      \/ Len(name) > 100
      \/ HasPrefixAt(name, 1, TxtHttp)
      \/ Contains(ToLower(name), TxtLikeLower)
      \/ Contains(ToLower(name), TxtComment)

\* The loop over authorSelectors, from selector k on.
RECURSIVE AuthorLoop(_, _)
AuthorLoop(elems, k) ==
    IF k > Len(authorSelectors) THEN <<>>
    ELSE IF ~elems[k].found THEN AuthorLoop(elems, k + 1)
    ELSE IF LooksLikeName(TrimSpace(elems[k].text)) THEN TrimSpace(elems[k].text)
    ELSE AuthorLoop(elems, k + 1)

extractAuthorName(elems) == AuthorLoop(elems, 1)

\* Texts of the elements the selectors find.
TxtAnnLee     == <<"A","n","n"," ","L","e","e">>
TxtPadded     == <<" "," ","B","o","b"," ">>
TxtLikeButton == <<"L","i","k","e">>
TxtCommentsN  == <<"3"," ","C","o","m","m","e","n","t","s">>
TxtFollowBtn  == <<"F","o","l","l","o","w">>
TxtMikeLikely == <<"M","i","k","e"," ","L","i","k","e","l","y">>
TxtHttpLink   == <<"h","t","t","p","s",":","/","/","f","b",".","c","o","m","/","a","n","n">>
TxtSpaces     == <<" "," ">>
Name100       == [i \in 1..100 |-> "a"]
Name101       == [i \in 1..101 |-> "a"]

AuthorTexts ==
    { <<>>, TxtSpaces, TxtAnnLee, TxtPadded, TxtLikeButton, TxtCommentsN,
      TxtFollowBtn, TxtMikeLikely, TxtHttpLink, Name100, Name101}

\* The nodes of the model: at most MaxMatched of the selectors find an
\* element.
AuthorNodes ==
    { elems \in [1..Len(authorSelectors) -> {NoElement} \cup { Element(t) : t \in AuthorTexts }] :
        Cardinality({ k \in 1..Len(authorSelectors) : elems[k].found }) <= MaxMatched }

NoAuthorNode == [k \in 1..Len(authorSelectors) |-> NoElement]

AuthorIdle == authorElems = NoAuthorNode /\ authorName = <<>> /\ apc = "idle"
AuthorInit == AuthorIdle

\* extractSinglePost comes to a node.
ReadAuthorElements ==
    /\ apc = "idle"
    /\ \E elems \in AuthorNodes : authorElems' = elems
    /\ authorName' = <<>>
    /\ apc' = "read"
    /\ UNCHANGED <<now, notAuthor>>

\* post.AuthorName = fs.extractAuthorName(s)
ExtractAuthorName ==
    /\ apc = "read"
    /\ authorName' = extractAuthorName(authorElems)
    /\ apc' = "returned"
    /\ UNCHANGED <<authorElems, now, notAuthor>>

-----------------------------------------------------------------------------
(* extractTextualEntities: the links *)

TxtHttpScheme  == <<"h","t","t","p">>
TxtFacebookCom == <<"f","a","c","e","b","o","o","k",".","c","o","m">>
TxtProfile     == <<"p","r","o","f","i","l","e">>
TxtHashtag     == <<"h","a","s","h","t","a","g">>
TxtRedirect    == <<"l",".","f","a","c","e","b","o","o","k",".","c","o","m","/","l",".","p","h","p","?","u","=">>

\* The position of the first c in s, Len(s) + 1 when there is none.
IndexOrEnd(s, c) ==
    CHOOSE i \in 1..(Len(s) + 1) :
        /\ i = Len(s) + 1 \/ s[i] = c
        /\ \A j \in 1..(i - 1) : s[j] # c

UpTo(s, c) == SubSeq(s, 1, IndexOrEnd(s, c) - 1)
Past(s, c)  == SubSeq(s, IndexOrEnd(s, c) + 1, Len(s))

\* The escapes the model's hrefs use, and the characters they stand for.
Escapes ==
    { <<"3","A",":">>, <<"2","F","/">>, <<"3","F","?">>, <<"3","D","=">>,
      <<"2","6","&">>, <<"2","5","%">> }

Unescaped(value) == [err |-> FALSE, value |-> value]
EscapeError      == [err |-> TRUE, value |-> <<>>]

\* url.QueryUnescape: %XX gives its character, + a space; an escape that
\* is cut short or is not hexadecimal is an error.
RECURSIVE QueryUnescape(_)
QueryUnescape(s) ==
    IF s = <<>> THEN Unescaped(<<>>)
    ELSE IF Head(s) = "%"
    THEN IF Len(s) >= 3 /\ \E e \in Escapes : e[1] = s[2] /\ e[2] = s[3]
         THEN LET rest == QueryUnescape(SubSeq(s, 4, Len(s)))
                  char == (CHOOSE e \in Escapes : e[1] = s[2] /\ e[2] = s[3])[3]
              IN  IF rest.err THEN EscapeError ELSE Unescaped(<<char>> \o rest.value)
         ELSE EscapeError
    ELSE LET rest == QueryUnescape(Tail(s))
             char == IF Head(s) = "+" THEN " " ELSE Head(s)
         IN  IF rest.err THEN EscapeError ELSE Unescaped(<<char>> \o rest.value)

\* u.Query().Get(key): the value of the first key=value pair of the query
\* with this key, unescaped; pairs with a bad escape are left out.
RECURSIVE QueryGet(_, _)
QueryGet(query, key) ==
    IF query = <<>> THEN <<>>
    ELSE LET pair  == UpTo(query, "&")
             k     == QueryUnescape(UpTo(pair, "="))
             v     == QueryUnescape(Past(pair, "="))
         IN  IF ~k.err /\ ~v.err /\ k.value = key THEN v.value
             ELSE QueryGet(Past(query, "&"), key)

\* url.Parse(href).Query(): what follows the first ? up to a #. The hrefs of
\* the model all parse.
RawQuery(href) == Past(UpTo(href, "#"), "?")

\* "Clean up Facebook's redirect links": the href the link is kept as.
CleanRedirect(href) ==
    IF ~Contains(href, TxtRedirect) THEN href
    ELSE LET redirectURL == QueryGet(RawQuery(href), <<"u">>)
             decodedURL  == QueryUnescape(redirectURL)
         IN  IF redirectURL # <<>> /\ ~decodedURL.err THEN decodedURL.value
             ELSE href

\* s.Find("a[href*='http']:not([href*='facebook.com']):not([href*='profile'])
\* :not([href*='hashtag'])")
LinkSelector(href) ==
    /\ Contains(href, TxtHttpScheme)
    /\ ~Contains(href, TxtFacebookCom)
    /\ ~Contains(href, TxtProfile)
    /\ ~Contains(href, TxtHashtag)

\* The Each over the links found, post.Links being links so far.
RECURSIVE extractLinks(_, _)
extractLinks(hrefs, links) ==
    IF hrefs = <<>> THEN links
    ELSE LET href == Head(hrefs) IN
         IF LinkSelector(href) /\ href # <<>> /\ HasPrefixAt(href, 1, TxtHttpScheme)
         THEN LET cleaned == CleanRedirect(href) IN
              extractLinks(Tail(hrefs),
                           IF \E i \in 1..Len(links) : links[i] = cleaned
                           THEN links ELSE Append(links, cleaned))
         ELSE extractLinks(Tail(hrefs), links)

\* The hrefs of the model: two outside pages, a page of the platform, a
\* redirect of the platform to the second outside page and one to a third, a
\* relative href, an outside page with "profile" in its path, and a
\* fragment that has a URL in it.
HrefOutsideA  == <<"h","t","t","p","s",":","/","/","e","x","a","m","p","l","e",".","o","r","g","/","a">>
HrefOutsideB  == <<"h","t","t","p",":","/","/","e","x","a","m","p","l","e",".","n","e","t","/","b","?","x","=","1">>
HrefOutsideC  == <<"h","t","t","p","s",":","/","/","e","x","a","m","p","l","e",".","c","o","m","/","c"," ","d">>
HrefPlatform  == <<"h","t","t","p","s",":","/","/","w","w","w",".","f","a","c","e","b","o","o","k",".","c","o","m","/","g","r","o","u","p","s","/","1","/">>
HrefRedirectB == <<"h","t","t","p","s",":","/","/","l",".","f","a","c","e","b","o","o","k",".","c","o","m","/","l",".","p","h","p","?","u","=","h","t","t","p","%","3","A","%","2","F","%","2","F","e","x","a","m","p","l","e",".","n","e","t","%","2","F","b","%","3","F","x","%","3","D","1","&","h","=","A","T","0">>
HrefRedirectC == <<"h","t","t","p","s",":","/","/","l",".","f","a","c","e","b","o","o","k",".","c","o","m","/","l",".","p","h","p","?","u","=","h","t","t","p","s","%","3","A","%","2","F","%","2","F","e","x","a","m","p","l","e",".","c","o","m","%","2","F","c","+","d","&","h","=","A","T","0">>
HrefRelative  == <<"/","g","r","o","u","p","s","/","1","/","p","o","s","t","s","/","2">>
HrefTips      == <<"h","t","t","p","s",":","/","/","e","x","a","m","p","l","e",".","o","r","g","/","p","r","o","f","i","l","e","-","t","i","p","s">>
HrefFragment  == <<"#","h","t","t","p","s",":","/","/","e","x","a","m","p","l","e",".","o","r","g","/","a">>

AnchorHrefs ==
    { HrefOutsideA, HrefOutsideB, HrefPlatform, HrefRedirectB, HrefRedirectC,
      HrefRelative, HrefTips, HrefFragment }

LinksIdle == anchors = <<>> /\ postLinks = <<>> /\ lpc = "idle"
LinksInit == LinksIdle

\* The node has one more a element.
AddAnchor ==
    /\ lpc = "idle"
    /\ Len(anchors) < MaxAnchors
    /\ \E href \in AnchorHrefs : anchors' = Append(anchors, href)
    /\ UNCHANGED <<postLinks, lpc, now, notLinks>>

\* fs.extractTextualEntities(s, post), post.Links being empty before.
ExtractLinks ==
    /\ lpc = "idle"
    /\ postLinks' = extractLinks(anchors, <<>>)
    /\ lpc' = "extracted"
    /\ UNCHANGED <<anchors, now, notLinks>>

-----------------------------------------------------------------------------
(* extractImages and extractVideos *)

imageSelectors ==
    << "img[src*='scontent']", "img[src*='fbcdn']", "a[href*='/photo/'] img",
       "div[data-testid*='photo'] img" >>

videoSelectors ==
    << "video[src]", "video source[src]", "a[href*='/video/']",
       "div[data-testid*='video-attachment']" >>

\* An element of the node: its tag, the selectors that match it, its src,
\* data-src and href attributes, width and height as strconv.Atoi reads
\* them (0 for a missing or unparsable one), its data-store, and the src of
\* the first img inside it.
MediaElement(tag, matches, src, dataSrc, href, width, height, dataStore, thumbnail) ==
    [tag |-> tag, matches |-> matches, src |-> src, dataSrc |-> dataSrc,
     href |-> href, width |-> width, height |-> height,
     dataStore |-> dataStore, thumbnail |-> thumbnail]

MediaItem(url, type, width, height, thumbnail) ==
    [URL |-> url, Type |-> type, Width |-> width, Height |-> height,
     Thumbnail |-> thumbnail]

\* A mediaItemExists that compares the item with the last one appended only.
mediaItemExistsLast(items, item) ==
    Len(items) > 0 /\ items[Len(items)].URL = item.URL

\* mediaItemExists
mediaItemExists(items, item) ==
    \E i \in 1..Len(items) : items[i].URL = item.URL

TxtAvatar   == <<"a","v","a","t","a","r">>
TxtEmoji    == <<"e","m","o","j","i">>
TxtEmoticon == <<"e","m","o","t","i","c","o","n">>
TxtSlashVideoSlash == <<"/","v","i","d","e","o","/">>
TxtFacebookOrigin  == <<"h","t","t","p","s",":","/","/","w","w","w",".","f","a","c","e","b","o","o","k",".","c","o","m">>
TxtVideoPhp        == <<"h","t","t","p","s",":","/","/","w","w","w",".","f","a","c","e","b","o","o","k",".","c","o","m","/","v","i","d","e","o","/","v","i","d","e","o",".","p","h","p","?","v","=">>

\* The body of the Each of extractImages on one img element: images with
\* the item appended, or as they were.
ImageOf(img, images) ==
    LET src       == IF img.src.exists THEN img.src.value ELSE img.dataSrc.value
        lowerSrc  == ToLower(src)
        mediaItem == MediaItem(src, "image", img.width, img.height, <<>>)
    IN  IF ~img.src.exists /\ ~img.dataSrc.exists THEN images
        ELSE IF \/ (img.width > 0 /\ img.width < 50)
                \/ (img.height > 0 /\ img.height < 50)
        THEN images
        ELSE IF \/ Contains(lowerSrc, TxtAvatar)
                \/ Contains(lowerSrc, TxtProfile)
                \/ Contains(lowerSrc, TxtEmoji)
                \/ Contains(lowerSrc, TxtEmoticon)
        THEN images
        ELSE IF mediaItemExists(images, mediaItem) THEN images
        ELSE Append(images, mediaItem)

\* "Get video URL depending on element type"
VideoURL(el) ==
    IF el.tag \in {"video", "source"}
    THEN (IF el.src.exists THEN el.src.value ELSE <<>>)
    ELSE IF el.tag = "a"
    THEN LET href == IF el.href.exists THEN el.href.value ELSE <<>> IN
         IF ~Contains(href, TxtSlashVideoSlash) THEN <<>>
         ELSE IF HasPrefixAt(href, 1, TxtHttpScheme) THEN href
         ELSE TxtFacebookOrigin \o href
    ELSE IF el.dataStore.exists /\ el.dataStore.valid
            /\ StringMember(el.dataStore.obj, "videoID") # <<>>
    THEN TxtVideoPhp \o StringMember(el.dataStore.obj, "videoID")
    ELSE <<>>

\* The body of the Each of extractVideos on one element.
VideoOf(el, videos) ==
    LET videoURL  == VideoURL(el)
        mediaItem == MediaItem(videoURL, "video", 0, 0, el.thumbnail)
    IN  IF videoURL = <<>> THEN videos
        ELSE IF mediaItemExists(videos, mediaItem) THEN videos
        ELSE Append(videos, mediaItem)

\* s.Find(selector).Each over the elements from i on; kind is "image" or
\* "video".
RECURSIVE EachMedia(_, _, _, _, _)
EachMedia(elems, selector, kind, i, items) ==
    IF i > Len(elems) THEN items
    ELSE IF selector \notin elems[i].matches
    THEN EachMedia(elems, selector, kind, i + 1, items)
    ELSE EachMedia(elems, selector, kind, i + 1,
                   IF kind = "image" THEN ImageOf(elems[i], items)
                   ELSE VideoOf(elems[i], items))

\* for _, selector := range selectors, from selector k on.
RECURSIVE MediaLoop(_, _, _, _, _)
MediaLoop(elems, selectors, kind, k, items) ==
    IF k > Len(selectors) THEN items
    ELSE MediaLoop(elems, selectors, kind, k + 1,
                   EachMedia(elems, selectors[k], kind, 1, items))

extractImages(elems) == MediaLoop(elems, imageSelectors, "image", 1, <<>>)
extractVideos(elems) == MediaLoop(elems, videoSelectors, "video", 1, <<>>)

\* The elements of the model.
SrcPhoto    == <<"h","t","t","p","s",":","/","/","s","c","o","n","t","e","n","t",".","f","b","c","d","n",".","n","e","t","/","p","1",".","j","p","g">>
SrcLazy     == <<"h","t","t","p","s",":","/","/","s","c","o","n","t","e","n","t",".","f","b","/","p","2",".","j","p","g">>
SrcAvatar   == <<"h","t","t","p","s",":","/","/","s","c","o","n","t","e","n","t",".","f","b","/","A","v","a","t","a","r","/","a",".","j","p","g">>
SrcVideo    == <<"h","t","t","p","s",":","/","/","v","i","d","e","o",".","f","b","/","v","1",".","m","p","4">>
SrcPoster   == <<"h","t","t","p","s",":","/","/","s","c","o","n","t","e","n","t",".","f","b","/","v","i","d","e","o","/","t","1",".","j","p","g">>
HrefVideo   == <<"/","v","i","d","e","o","/","9">>

\* An img of the CDN inside a photo link: three selectors match it.
ImgPhoto ==
    MediaElement("img", {"img[src*='scontent']", "img[src*='fbcdn']", "a[href*='/photo/'] img"},
                 Value(SrcPhoto), NoValue, NoValue, 0, 0, NoJSON, <<>>)
\* A second img with the same src.
ImgPhotoAgain ==
    MediaElement("img", {"img[src*='scontent']", "img[src*='fbcdn']"},
                 Value(SrcPhoto), NoValue, NoValue, 600, 400, NoJSON, <<>>)
\* A lazily loaded img, an icon of 16 pixels, and an avatar.
ImgLazy ==
    MediaElement("img", {"div[data-testid*='photo'] img"},
                 NoValue, Value(SrcLazy), NoValue, 0, 0, NoJSON, <<>>)
ImgIcon ==
    MediaElement("img", {"img[src*='scontent']"},
                 Value(SrcLazy), NoValue, NoValue, 16, 16, NoJSON, <<>>)
ImgAvatar ==
    MediaElement("img", {"img[src*='scontent']"},
                 Value(SrcAvatar), NoValue, NoValue, 0, 0, NoJSON, <<>>)
\* A video, and the source element inside it with the same src.
VideoTag ==
    MediaElement("video", {"video[src]"},
                 Value(SrcVideo), NoValue, NoValue, 0, 0, NoJSON, <<>>)
SourceTag ==
    MediaElement("source", {"video source[src]"},
                 Value(SrcVideo), NoValue, NoValue, 0, 0, NoJSON, <<>>)
\* A relative link to a video, and a video attachment.
VideoLink ==
    MediaElement("a", {"a[href*='/video/']"},
                 NoValue, NoValue, Value(HrefVideo), 0, 0, NoJSON, <<>>)
VideoAttachment ==
    MediaElement("div", {"div[data-testid*='video-attachment']"},
                 NoValue, NoValue, NoValue, 0, 0,
                 JSONAttr({JString("videoID", <<"9">>)}), <<>>)
\* A link to the poster of a video on the CDN, and the img inside it that
\* shows the poster.
PosterLink ==
    MediaElement("a", {"a[href*='/video/']"},
                 NoValue, NoValue, Value(SrcPoster), 0, 0, NoJSON, SrcPoster)
PosterImg ==
    MediaElement("img", {"img[src*='scontent']"},
                 Value(SrcPoster), NoValue, NoValue, 0, 0, NoJSON, <<>>)

MediaElements ==
    { ImgPhoto, ImgPhotoAgain, ImgLazy, ImgIcon, ImgAvatar, VideoTag,
      SourceTag, VideoLink, VideoAttachment, PosterLink, PosterImg }

NoMedia == [Images |-> <<>>, Videos |-> <<>>]

MediaIdle == mediaElems = <<>> /\ postMedia = NoMedia /\ vpc = "idle"
MediaInit == MediaIdle

\* The node has one more element.
AddMediaElement ==
    /\ vpc = "idle"
    /\ Len(mediaElems) < MaxMedia
    /\ \E el \in MediaElements : mediaElems' = Append(mediaElems, el)
    /\ UNCHANGED <<postMedia, vpc, now, notMedia>>

\* fs.extractImages(s, post); fs.extractVideos(s, post)
ExtractMedia ==
    /\ vpc = "idle"
    /\ postMedia' = [Images |-> extractImages(mediaElems),
                     Videos |-> extractVideos(mediaElems)]
    /\ vpc' = "extracted"
    /\ UNCHANGED <<mediaElems, now, notMedia>>

-----------------------------------------------------------------------------
(* performScrolling: progressiveScroll, infiniteScroll, clickSeeMoreButtons *)

maxScrollsProgressive == 20
maxScrollsInfinite    == 15
maxClicks             == 10

\* The scripts that test for a post of 5 days or more. progressiveScroll's is
\* one expression; infiniteScroll's is a statement list that ends in a
\* return statement outside any function, which Runtime.evaluate rejects
\* with a SyntaxError before running anything.
hasOldPostsProgressive == [topLevelReturn |-> FALSE]
hasOldPostsInfinite    == [topLevelReturn |-> TRUE]

\* chromedp.Evaluate(script, &res).Do(ctx) with its error dropped: what the
\* call may come to when the page would answer truth. After an error (the
\* script is rejected, or the context is over) res is left as it was, false.
Evaluate(script, truth) ==
    IF script.topLevelReturn
    THEN { [err |-> TRUE, res |-> FALSE] }
    ELSE { [err |-> TRUE, res |-> FALSE], [err |-> FALSE, res |-> truth] }

Ran(strategy, iterations, err) ==
    [strategy |-> strategy, iterations |-> iterations, err |-> err]

ScrollIdle ==
    /\ spc = "wait"
    /\ scrollIter = 0
    /\ oldVisible = FALSE
    /\ hasOldPosts = FALSE
    /\ evalFailed = FALSE
    /\ scrollRan = <<>>
ScrollInit == ScrollIdle

\* progressiveScroll's chromedp.WaitVisible("body"): its error is the only
\* one progressiveScroll returns, and sends performScrolling to
\* infiniteScroll.
WaitVisibleBody ==
    /\ spc = "wait"
    /\ \E err \in {"nil", "context deadline exceeded"} :
         IF err # "nil"
         THEN /\ scrollRan' = Append(scrollRan, Ran("progressive", 0, err))
              /\ spc' = "infinite"
         ELSE /\ scrollRan' = scrollRan
              /\ spc' = "progressive"
    /\ UNCHANGED <<scrollIter, oldVisible, hasOldPosts, evalFailed>>
    /\ UNCHANGED <<now, notScroll>>

\* One iteration of the loop of a strategy: the scroll, then the test for
\* old posts and its break; after the loop the strategy returns nil.
ScrollStep(strategy, maxScrolls, script) ==
    /\ spc = strategy
    /\ scrollIter < maxScrolls
    /\ \E truth \in BOOLEAN :
         \E answer \in Evaluate(script, truth) :
           /\ oldVisible' = truth
           /\ hasOldPosts' = answer.res
           /\ evalFailed' = answer.err
           /\ IF answer.res \/ scrollIter + 1 = maxScrolls
              THEN /\ scrollRan' = Append(scrollRan, Ran(strategy, scrollIter + 1, "nil"))
                   /\ scrollIter' = 0
                   /\ spc' = "done"
              ELSE /\ scrollRan' = scrollRan
                   /\ scrollIter' = scrollIter + 1
                   /\ spc' = strategy
    /\ UNCHANGED <<now, notScroll>>

ProgressiveScrollStep ==
    ScrollStep("progressive", maxScrollsProgressive, hasOldPostsProgressive)

\* infiniteScroll returns nil whatever happened, so performScrolling never
\* goes on to clickSeeMoreButtons.
InfiniteScrollStep ==
    ScrollStep("infinite", maxScrollsInfinite, hasOldPostsInfinite)

-----------------------------------------------------------------------------
(* Monitor: RecordScrapingRun *)

\* GroupMetric's zero value, which a map gives for a key it does not hold.
ZeroGroupMetric ==
    [PostsScraped |-> 0, LastScraped |-> ZeroTime, AverageRunTime |-> 0,
     ErrorCount |-> 0]

\* float64(failed) / float64(total) * 100, kept as its two operands.
Rate(failed, total) == [failed |-> failed, total |-> total]

\* NewMonitor where no metrics file exists: loadMetrics returns at once.
NewMetrics ==
    [ScrapingRuns |-> 0, TotalPosts |-> 0, SuccessfulPosts |-> 0,
     FailedPosts |-> 0, LastRun |-> ZeroTime, AverageRunTime |-> 0,
     ErrorRate |-> Rate(0, 0), GroupMetrics |-> <<>>]

\* m.metrics.GroupMetrics[groupID]
GroupMetricOf(groupMetrics, groupID) ==
    IF groupID \in DOMAIN groupMetrics THEN groupMetrics[groupID]
    ELSE ZeroGroupMetric

\* m.metrics.GroupMetrics[groupID] = groupMetric
PutGroupMetric(groupMetrics, groupID, groupMetric) ==
    [g \in DOMAIN groupMetrics \cup {groupID} |->
        IF g = groupID THEN groupMetric ELSE groupMetrics[g]]

\* (a variant that takes every post scraped for a successful one)
RecordScrapingRunAllSuccessful(m, groupID, postsScraped, duration, errors, clock) ==
    LET runs   == m.ScrapingRuns + 1
        total  == m.TotalPosts + postsScraped
        failed == m.FailedPosts + errors
        gm     == GroupMetricOf(m.GroupMetrics, groupID)
    IN  [ScrapingRuns    |-> runs,
         TotalPosts      |-> total,
         SuccessfulPosts |-> m.SuccessfulPosts + postsScraped,
         FailedPosts     |-> failed,
         LastRun         |-> clock,
         AverageRunTime  |-> IF runs > 1 THEN (m.AverageRunTime + duration) \div 2
                             ELSE duration,
         ErrorRate       |-> IF total > 0 THEN Rate(failed, total) ELSE m.ErrorRate,
         GroupMetrics    |->
            PutGroupMetric(m.GroupMetrics, groupID,
                [PostsScraped   |-> gm.PostsScraped + postsScraped,
                 LastScraped    |-> clock,
                 AverageRunTime |-> IF gm.AverageRunTime = 0 THEN duration
                                    ELSE (gm.AverageRunTime + duration) \div 2,
                 ErrorCount     |-> gm.ErrorCount + errors])]

\* RecordScrapingRun: m.metrics after the call. saveMetrics writes the file
\* and changes nothing of m.metrics.
RecordScrapingRun(m, groupID, postsScraped, duration, errors, clock) ==
    LET runs   == m.ScrapingRuns + 1
        total  == m.TotalPosts + postsScraped
        failed == m.FailedPosts + errors
        gm     == GroupMetricOf(m.GroupMetrics, groupID)
    IN  [ScrapingRuns    |-> runs,
         TotalPosts      |-> total,
         SuccessfulPosts |-> m.SuccessfulPosts + (postsScraped - errors),
         FailedPosts     |-> failed,
         LastRun         |-> clock,
         AverageRunTime  |-> IF runs > 1 THEN (m.AverageRunTime + duration) \div 2
                             ELSE duration,
         ErrorRate       |-> IF total > 0 THEN Rate(failed, total) ELSE m.ErrorRate,
         GroupMetrics    |->
            PutGroupMetric(m.GroupMetrics, groupID,
                [PostsScraped   |-> gm.PostsScraped + postsScraped,
                 LastScraped    |-> clock,
                 AverageRunTime |-> IF gm.AverageRunTime = 0 THEN duration
                                    ELSE (gm.AverageRunTime + duration) \div 2,
                 ErrorCount     |-> gm.ErrorCount + errors])]

\* The arguments of the calls of the model: a run with no posts, runs with
\* some, runs with more errors than posts.
MonitoredGroups == {"g1", "g2"}
PostsScrapedArgs == {0, 2, 3}
ErrorsArgs == {0, 1, 4}
DurationArgs == {1 * Second, 4 * Second}

MonitorIdle == metrics = NewMetrics /\ recorded = 0
MonitorInit == MonitorIdle

RecordRun ==
    /\ recorded < MaxRuns
    /\ \E groupID \in MonitoredGroups, postsScraped \in PostsScrapedArgs,
          duration \in DurationArgs, errors \in ErrorsArgs :
         metrics' = RecordScrapingRun(metrics, groupID, postsScraped, duration,
                                      errors, now)
    /\ recorded' = recorded + 1
    /\ UNCHANGED <<now, notMonitor>>

-----------------------------------------------------------------------------
(* handlePosts and GetPostsWithPagination *)

\* A Go int (64 bits, two's complement) is the tuple of its four 16-bit
\* limbs, the least significant first.
Limb == 65536

Int64(l1, l2, l3, l4) == <<l1, l2, l3, l4>>
Zero64   == Int64(0, 0, 0, 0)
MaxInt64 == Int64(Limb - 1, Limb - 1, Limb - 1, Limb \div 2 - 1)
MinInt64 == Int64(0, 0, 0, Limb \div 2)
OfSmall(n) == Int64(n, 0, 0, 0)

IsNegative(x) == x[4] >= Limb \div 2

\* x * m + a for small m and a: the low 64 bits, and what goes beyond them.
MulAdd(x, m, a) ==
    LET t1 == x[1] * m + a
        t2 == x[2] * m + t1 \div Limb
        t3 == x[3] * m + t2 \div Limb
        t4 == x[4] * m + t3 \div Limb
    IN  [limbs |-> Int64(t1 % Limb, t2 % Limb, t3 % Limb, t4 % Limb),
         carry |-> t4 \div Limb]

\* -x
Negate(x) ==
    MulAdd(Int64(Limb - 1 - x[1], Limb - 1 - x[2], Limb - 1 - x[3], Limb - 1 - x[4]),
           1, 1).limbs

\* x - 1
Minus1(x) ==
    LET b1 == x[1] = 0
        b2 == b1 /\ x[2] = 0
        b3 == b2 /\ x[3] = 0
    IN  Int64(IF b1 THEN Limb - 1 ELSE x[1] - 1,
              IF b1 THEN (IF b2 THEN Limb - 1 ELSE x[2] - 1) ELSE x[2],
              IF b2 THEN (IF b3 THEN Limb - 1 ELSE x[3] - 1) ELSE x[3],
              IF b3 THEN (x[4] + Limb - 1) % Limb ELSE x[4])

\* x < 1, x > 100
LessThan1(x) == IsNegative(x) \/ x = Zero64
MoreThan100(x) == ~IsNegative(x) /\ (x[1] > 100 \/ x[2] > 0 \/ x[3] > 0 \/ x[4] > 0)

\* x * y with its overflow wrapped, for 0 <= y <= 100
Times(x, y) == MulAdd(x, y[1], 0).limbs

\* The magnitude of the digits of s from the i-th on, read four at a time;
\* over once it has passed 2^64.
RECURSIVE Magnitude(_, _, _, _)
Magnitude(s, i, acc, over) ==
    IF i > Len(s) THEN [limbs |-> acc, over |-> over]
    ELSE LET k == IF Len(s) - i + 1 < 4 THEN Len(s) - i + 1 ELSE 4
             r == MulAdd(acc, 10 ^ k, Atoi(SubSeq(s, i, i + k - 1)))
         IN  Magnitude(s, i + k, r.limbs, over \/ r.carry > 0)

\* strconv.Atoi with its error dropped: 0 after a syntax error, the nearest
\* int after a range error.
strconvAtoi(s) ==
    LET signed == s # <<>> /\ s[1] \in {"+", "-"}
        first  == IF signed THEN 2 ELSE 1
        minus  == signed /\ s[1] = "-"
        m      == Magnitude(s, first, Zero64, FALSE)
    IN  IF first > Len(s) \/ \E i \in first..Len(s) : ~IsDigit(s[i]) THEN Zero64
        ELSE IF ~minus
        THEN (IF m.over \/ IsNegative(m.limbs) THEN MaxInt64 ELSE m.limbs)
        ELSE (IF m.over \/ (IsNegative(m.limbs) /\ m.limbs # MinInt64) THEN MinInt64
              ELSE Negate(m.limbs))

\* GetPostsWithPagination: offset := (page - 1) * pageSize
Offset(page, pageSize) == Times(Minus1(page), pageSize)

\* handlePosts up to the call of the store.
PostsQuery(q) ==
    LET page0     == strconvAtoi(q.page)
        page      == IF LessThan1(page0) THEN OfSmall(1) ELSE page0
        pageSize0 == strconvAtoi(q.page_size)
        pageSize  == IF LessThan1(pageSize0) \/ MoreThan100(pageSize0)
                     THEN OfSmall(20) ELSE pageSize0
        minLikes0 == strconvAtoi(q.min_likes)
        minLikes  == IF LessThan1(minLikes0) THEN OfSmall(1000) ELSE minLikes0
    IN  [page |-> page, pageSize |-> pageSize, minLikes |-> minLikes,
         offset |-> Offset(page, pageSize)]

\* The query parameters of the model.
PageParams ==
    { <<>>, <<"0">>, <<"1">>, <<"2">>, <<"-","3">>, <<"+","7">>, <<"a","b","c">>, <<"6","5","5","3","6">>, <<"4","2","9","4","9","6","7","2","9","7">>,
      <<"4","6","1","1","6","8","6","0","1","8","4","2","7","3","8","7","9","1">>, <<"9","2","2","3","3","7","2","0","3","6","8","5","4","7","7","5","8","0","7">>, <<"9","2","2","3","3","7","2","0","3","6","8","5","4","7","7","5","8","0","8">>,
      <<"-","9","2","2","3","3","7","2","0","3","6","8","5","4","7","7","5","8","0","8">>, <<"-","9","2","2","3","3","7","2","0","3","6","8","5","4","7","7","5","8","0","9">> }
PageSizeParams ==
    { <<>>, <<"0">>, <<"1">>, <<"2","0">>, <<"1","0","0">>, <<"1","0","1">>, <<"-","5">>, <<"t","e","n">>, <<"9","9","9","9","9","9","9","9","9","9","9","9","9","9","9","9","9","9","9","9">> }
MinLikesParams ==
    { <<>>, <<"0">>, <<"1">>, <<"5","0">>, <<"-","1">>, <<"9","2","2","3","3","7","2","0","3","6","8","5","4","7","7","5","8","0","8">> }

NoStoreArgs == [page |-> Zero64, pageSize |-> Zero64, minLikes |-> Zero64,
                offset |-> Zero64]
NoRequest == [page |-> <<>>, page_size |-> <<>>, min_likes |-> <<>>]

ApiIdle ==
    /\ apiRequest = NoRequest
    /\ storeArgs = NoStoreArgs
    /\ apiStatus = 0
    /\ hpc = "idle"
ApiInit == ApiIdle

\* A GET of /api/posts arrives.
ReceivePostsRequest ==
    /\ hpc = "idle"
    /\ \E p \in PageParams, ps \in PageSizeParams, ml \in MinLikesParams :
         apiRequest' = [page |-> p, page_size |-> ps, min_likes |-> ml]
    /\ hpc' = "received"
    /\ UNCHANGED <<storeArgs, apiStatus, now, notApi>>

\* handlePosts. The database refuses a negative OFFSET, and any query of the
\* store may fail: either is answered with status 500.
HandlePosts ==
    /\ hpc = "received"
    /\ storeArgs' = PostsQuery(apiRequest)
    /\ \E failed \in BOOLEAN :
         apiStatus' = IF IsNegative(storeArgs'.offset) \/ failed THEN 500 ELSE 200
    /\ hpc' = "handled"
    /\ UNCHANGED <<apiRequest, now, notApi>>

-----------------------------------------------------------------------------
(* Specifications *)

InitAssemble == loc = UTC /\ now = 1 /\ AssembleInit /\ MergeInit /\ FilterIdle /\ CountInit /\ TimeInit /\ DocInit /\ TableInit /\ RunInit /\ SaveIdle /\ IdIdle /\ AuthorIdle /\ LinksIdle /\ MediaIdle /\ ScrollIdle /\ MonitorIdle /\ ApiIdle
NextAssemble == ExtractCandidate
SpecAssemble == InitAssemble /\ [][NextAssemble]_vars

InitMerge == loc = UTC /\ now = 1 /\ AssembleInit /\ MergeInit /\ FilterIdle /\ CountInit /\ TimeInit /\ DocInit /\ TableInit /\ RunInit /\ SaveIdle /\ IdIdle /\ AuthorIdle /\ LinksIdle /\ MediaIdle /\ ScrollIdle /\ MonitorIdle /\ ApiIdle
NextMerge ==
    \/ AppendBrowserPost
    \/ AppendStaticPost
    \/ RemoveDuplicates
    \/ RemoveDuplicatesAgain
SpecMerge == InitMerge /\ [][NextMerge]_vars

InitFilter == loc = UTC /\ now = FilterNow /\ AssembleInit /\ MergeInit /\ FilterInit /\ CountInit /\ TimeInit /\ DocInit /\ TableInit /\ RunInit /\ SaveIdle /\ IdIdle /\ AuthorIdle /\ LinksIdle /\ MediaIdle /\ ScrollIdle /\ MonitorIdle /\ ApiIdle
NextFilter ==
    \/ AddFilterPost
    \/ RunBatchFilter
SpecFilter == InitFilter /\ [][NextFilter]_vars

InitCount == loc = UTC /\ now = 1 /\ AssembleInit /\ MergeInit /\ FilterIdle /\ CountInit /\ TimeInit /\ DocInit /\ TableInit /\ RunInit /\ SaveIdle /\ IdIdle /\ AuthorIdle /\ LinksIdle /\ MediaIdle /\ ScrollIdle /\ MonitorIdle /\ ApiIdle
NextCount ==
    \/ ReadCountText
    \/ ExtractNumber
SpecCount == InitCount /\ [][NextCount]_vars

InitTime == now \in TimeNows /\ loc \in Zones /\ AssembleInit /\ MergeInit /\ FilterIdle /\ CountInit /\ TimeInit /\ DocInit /\ TableInit /\ RunInit /\ SaveIdle /\ IdIdle /\ AuthorIdle /\ LinksIdle /\ MediaIdle /\ ScrollIdle /\ MonitorIdle /\ ApiIdle
NextTime ==
    \/ ReadTimeText
    \/ ParseRelativeTime
SpecTime == InitTime /\ [][NextTime]_vars

InitDocument == loc = UTC /\ now = FilterNow /\ AssembleInit /\ MergeInit /\ FilterIdle /\ CountInit /\ TimeInit /\ DocInit /\ TableInit /\ RunInit /\ SaveIdle /\ IdIdle /\ AuthorIdle /\ LinksIdle /\ MediaIdle /\ ScrollIdle /\ MonitorIdle /\ ApiIdle
NextDocument ==
    \/ AddNode
    \/ ExtractPosts
    \/ MergeExtracted
SpecDocument == InitDocument /\ [][NextDocument]_vars

InitRun == loc = UTC /\ now = FilterNow /\ AssembleInit /\ MergeInit /\ FilterIdle /\ CountInit /\ TimeInit /\ DocInit /\ TableInit /\ RunInit /\ SaveIdle /\ IdIdle /\ AuthorIdle /\ LinksIdle /\ MediaIdle /\ ScrollIdle /\ MonitorIdle /\ ApiIdle
NextRun ==
    \/ GetGroupName
    \/ ScrapeWithBrowser
    \/ StaticFetch
    \/ FinishGroup
    \/ SleepBetweenGroups
SpecRun == InitRun /\ [][NextRun]_vars

InitSave == loc = UTC /\ now = 1 /\ AssembleInit /\ MergeInit /\ FilterIdle /\ CountInit /\ TimeInit /\ DocInit /\ TableInit /\ RunInit /\ SaveInit /\ IdIdle /\ AuthorIdle /\ LinksIdle /\ MediaIdle /\ ScrollIdle /\ MonitorIdle /\ ApiIdle
NextSave == CallSavePost
SpecSave == InitSave /\ [][NextSave]_vars

InitIdentifier == loc = UTC /\ now = 1 /\ AssembleInit /\ MergeInit /\ FilterIdle /\ CountInit /\ TimeInit /\ DocInit /\ TableInit /\ RunInit /\ SaveIdle /\ IdInit /\ AuthorIdle /\ LinksIdle /\ MediaIdle /\ ScrollIdle /\ MonitorIdle /\ ApiIdle
NextIdentifier ==
    \/ ReadNode
    \/ ExtractPostID
SpecIdentifier == InitIdentifier /\ [][NextIdentifier]_vars

InitAuthor == loc = UTC /\ now = 1 /\ AssembleInit /\ MergeInit /\ FilterIdle /\ CountInit /\ TimeInit /\ DocInit /\ TableInit /\ RunInit /\ SaveIdle /\ IdIdle /\ AuthorInit /\ LinksIdle /\ MediaIdle /\ ScrollIdle /\ MonitorIdle /\ ApiIdle
NextAuthor ==
    \/ ReadAuthorElements
    \/ ExtractAuthorName
SpecAuthor == InitAuthor /\ [][NextAuthor]_vars

InitLinks == loc = UTC /\ now = 1 /\ AssembleInit /\ MergeInit /\ FilterIdle /\ CountInit /\ TimeInit /\ DocInit /\ TableInit /\ RunInit /\ SaveIdle /\ IdIdle /\ AuthorIdle /\ LinksInit /\ MediaIdle /\ ScrollIdle /\ MonitorIdle /\ ApiIdle
NextLinks ==
    \/ AddAnchor
    \/ ExtractLinks
SpecLinks == InitLinks /\ [][NextLinks]_vars

InitMedia == loc = UTC /\ now = 1 /\ AssembleInit /\ MergeInit /\ FilterIdle /\ CountInit /\ TimeInit /\ DocInit /\ TableInit /\ RunInit /\ SaveIdle /\ IdIdle /\ AuthorIdle /\ LinksIdle /\ MediaInit /\ ScrollIdle /\ MonitorIdle /\ ApiIdle
NextMedia ==
    \/ AddMediaElement
    \/ ExtractMedia
SpecMedia == InitMedia /\ [][NextMedia]_vars

InitScroll == loc = UTC /\ now = 1 /\ AssembleInit /\ MergeInit /\ FilterIdle /\ CountInit /\ TimeInit /\ DocInit /\ TableInit /\ RunInit /\ SaveIdle /\ IdIdle /\ AuthorIdle /\ LinksIdle /\ MediaIdle /\ ScrollInit /\ MonitorIdle /\ ApiIdle
NextScroll ==
    \/ WaitVisibleBody
    \/ ProgressiveScrollStep
    \/ InfiniteScrollStep
SpecScroll == InitScroll /\ [][NextScroll]_vars

InitMonitor == loc = UTC /\ now = 1 /\ AssembleInit /\ MergeInit /\ FilterIdle /\ CountInit /\ TimeInit /\ DocInit /\ TableInit /\ RunInit /\ SaveIdle /\ IdIdle /\ AuthorIdle /\ LinksIdle /\ MediaIdle /\ ScrollIdle /\ MonitorInit /\ ApiIdle
NextMonitor ==
    \/ RecordRun
SpecMonitor == InitMonitor /\ [][NextMonitor]_vars

InitApi == loc = UTC /\ now = 1 /\ AssembleInit /\ MergeInit /\ FilterIdle /\ CountInit /\ TimeInit /\ DocInit /\ TableInit /\ RunInit /\ SaveIdle /\ IdIdle /\ AuthorIdle /\ LinksIdle /\ MediaIdle /\ ScrollIdle /\ MonitorIdle /\ ApiInit
NextApi ==
    \/ ReceivePostsRequest
    \/ HandlePosts
SpecApi == InitApi /\ [][NextApi]_vars

-----------------------------------------------------------------------------
(* Claims: post validity *)

\* The identifier extractSinglePost gave the candidate handed to it last.
CandID == extractPostID(cand, "g1", now)

\* The candidate handed to extractSinglePost last reached extractPosts' result.
ReachedCaller ==
    /\ lastPost # NilPost
    /\ posts # <<>>
    /\ posts[Len(posts)] = lastPost

\* C1: a candidate yields a post exactly when its identifier is non-empty and
\* it has content, an author, a positive likes, comments or shares counter,
\* or media; every other candidate never reaches the caller.
C1_ValidIffAnyEngagement ==
    cand # NoCand =>
        ( ReachedCaller <=>
            /\ CandID # ""
            /\ \/ cand.content # <<>>
               \/ cand.author # <<>>
               \/ cand.likes > 0 \/ cand.comments > 0 \/ cand.shares > 0
               \/ Len(cand.images) + Len(cand.videos) > 0 )

-----------------------------------------------------------------------------
(* Claims: merge *)

MergeInput == browserPosts \o staticPosts
Merged == mpc # "collect"

InputIDs == { MergeInput[i].ID : i \in 1..Len(MergeInput) }

\* The sightings of identifier id in the merged input, in arrival order.
Sightings(id) == SelectSeq(MergeInput, LAMBDA p : p.ID = id)

SeqMax(f(_), ps) ==
    CHOOSE m \in { f(ps[i]) : i \in 1..Len(ps) } :
        \A i \in 1..Len(ps) : f(ps[i]) <= m

Likes(p)    == p.LikesCount
Comments(p) == p.CommentsCount
Shares(p)   == p.SharesCount

C3_MergeIdempotent == (mpc = "remerged") => (remerged = uniquePosts)

\* A merge that dropped a duplicate and kept two posts was applied again.
C3_Witness ==
    /\ mpc = "remerged"
    /\ Len(uniquePosts) >= 2
    /\ Len(uniquePosts) < Len(MergeInput)

\* The key the claim gives a post: the identifier, with the author for a
\* generated fallback identifier.
ClaimedKey(p) ==
    IF p.ID \in MergeGeneratedIDs THEN <<p.ID, p.AuthorName>> ELSE <<p.ID>>

-----------------------------------------------------------------------------
(* Claims: filter *)

FilterDone == fpc = "done"

\* The elements of ps whose index is in I, in the order of ps.
RECURSIVE PickIndices(_, _, _)
PickIndices(ps, I, i) ==
    IF i > Len(ps) THEN <<>>
    ELSE (IF i \in I THEN <<ps[i]>> ELSE <<>>) \o PickIndices(ps, I, i + 1)

RECURSIVE IsSubsequence(_, _)
IsSubsequence(a, b) ==
    IF a = <<>> THEN TRUE
    ELSE IF b = <<>> THEN FALSE
    ELSE IF Head(a) = Head(b) THEN IsSubsequence(Tail(a), Tail(b))
    ELSE IsSubsequence(a, Tail(b))

HasKeywordOf(post, keywords) ==
    \E i \in 1..Len(keywords) : Contains(ToLower(post.Content), ToLower(keywords[i]))

\* The predicates of the claim, each applying when it is configured;
\* configured(x) says when a threshold x is.
Satisfies(post, f, t, configured(_)) ==
    /\ configured(f.MinLikes) => post.LikesCount >= f.MinLikes
    /\ configured(f.MaxLikes) => post.LikesCount <= f.MaxLikes
    /\ configured(f.MinComments) => post.CommentsCount >= f.MinComments
    /\ configured(f.MinShares) => post.SharesCount >= f.MinShares
    /\ configured(f.DaysBack) => post.PostTime >= t - f.DaysBack * Day
    /\ f.StartDate # ZeroTime => post.PostTime >= f.StartDate
    /\ f.EndDate # ZeroTime => post.PostTime <= f.EndDate
    /\ f.Keywords # <<>> => HasKeywordOf(post, f.Keywords)
    /\ ~HasKeywordOf(post, f.ExcludeKeywords)
    /\ f.GroupIDs # <<>> => \E i \in 1..Len(f.GroupIDs) : f.GroupIDs[i] = post.GroupID
    /\ f.AuthorNames # <<>> =>
          \E i \in 1..Len(f.AuthorNames) : EqualFold(f.AuthorNames[i], post.AuthorName)

NonZero(x)  == x # 0
Positive(x) == x > 0

\* C5 (as stated): BatchFilter returns exactly the input posts, in input
\* order, that satisfy every configured predicate, a threshold being not
\* configured when it is zero.
C5_KeepsPostsSatisfyingNonZeroPredicates ==
    FilterDone =>
        filteredPosts = PickIndices(fposts,
            { i \in 1..Len(fposts) : Satisfies(fposts[i], fsFilter, clockReads[i], NonZero) }, 1)

\* C5 (amended): the same, a threshold (MinLikes, MaxLikes, MinComments,
\* MinShares, DaysBack) being not configured when it is zero or negative.
C5_KeepsPostsSatisfyingPositivePredicates ==
    FilterDone =>
        filteredPosts = PickIndices(fposts,
            { i \in 1..Len(fposts) : Satisfies(fposts[i], fsFilter, clockReads[i], Positive) }, 1)

\* The filter with every predicate configured kept the second of two posts.
C5_Witness ==
    /\ FilterDone
    /\ fsFilter = FilterOf(1..NumPredicates)
    /\ Len(fposts) = 2
    /\ filteredPosts = <<fposts[2]>>
    /\ fposts[1] # fposts[2]

\* The filters that are f with one predicate removed.
Relaxations(f) ==
    { [f EXCEPT !.MinLikes = 0], [f EXCEPT !.MaxLikes = 0],
      [f EXCEPT !.MinComments = 0], [f EXCEPT !.MinShares = 0],
      [f EXCEPT !.DaysBack = 0], [f EXCEPT !.StartDate = ZeroTime],
      [f EXCEPT !.EndDate = ZeroTime], [f EXCEPT !.Keywords = <<>>],
      [f EXCEPT !.ExcludeKeywords = <<>>], [f EXCEPT !.GroupIDs = <<>>],
      [f EXCEPT !.AuthorNames = <<>>] }

\* C6: every post BatchFilter returns under a filter is returned, at the same
\* clock readings, under that filter with one predicate removed.
C6_RemovingPredicateKeepsPosts ==
    FilterDone =>
        \A g \in Relaxations(fsFilter) :
            IsSubsequence(filteredPosts, BatchFilter(fposts, g, clockReads).filtered)

\* A filter with every predicate configured rejected a post that one of its
\* relaxations lets through, and kept another.
C6_Witness ==
    /\ FilterDone
    /\ fsFilter = FilterOf(1..NumPredicates)
    /\ Len(filteredPosts) = 1
    /\ \E g \in Relaxations(fsFilter) :
          Len(BatchFilter(fposts, g, clockReads).filtered) = 2

CountWhere(ps, fails(_)) == Cardinality({ i \in 1..Len(ps) : fails(ps[i]) })

\* C7 (as stated): each tally is the number of input posts failing its
\* category: the minimum likes/comments/shares, the recency window or date
\* bounds, the include or exclude keywords.
C7_TalliesCoverEveryCategory ==
    FilterDone =>
        LET f == fsFilter
            cutoff == clockReads[0] - f.DaysBack * Day
            failsEngagement(p) ==
                \/ f.MinLikes # 0 /\ p.LikesCount < f.MinLikes
                \/ f.MinComments # 0 /\ p.CommentsCount < f.MinComments
                \/ f.MinShares # 0 /\ p.SharesCount < f.MinShares
            failsTime(p) ==
                \/ f.DaysBack # 0 /\ p.PostTime <= cutoff
                \/ f.StartDate # ZeroTime /\ p.PostTime < f.StartDate
                \/ f.EndDate # ZeroTime /\ p.PostTime > f.EndDate
            failsKeywords(p) ==
                \/ f.Keywords # <<>> /\ ~HasKeywordOf(p, f.Keywords)
                \/ HasKeywordOf(p, f.ExcludeKeywords)
        IN  /\ filterStats.TotalPosts = Len(fposts)
            /\ filterStats.FilteredPosts = Len(filteredPosts)
            /\ filterStats.LikesFiltered = CountWhere(fposts, failsEngagement)
            /\ filterStats.TimeFiltered = CountWhere(fposts, failsTime)
            /\ filterStats.KeywordFiltered = CountWhere(fposts, failsKeywords)

\* C7 (amended): FilterStats has three tallies, counted independently of each
\* other and of the result: the posts below a non-zero MinLikes, the posts
\* not after the cutoff (the time BatchFilter started minus DaysBack days) of
\* a non-zero DaysBack, and the posts with none of the include keywords;
\* TotalPosts is the number of input posts, FilteredPosts that of the output.
C7_ThreeIndependentTallies ==
    FilterDone =>
        LET f == fsFilter
            cutoff == clockReads[0] - f.DaysBack * Day
            failsLikes(p) == f.MinLikes # 0 /\ p.LikesCount < f.MinLikes
            failsTime(p) == f.DaysBack # 0 /\ p.PostTime <= cutoff
            failsKeywords(p) == f.Keywords # <<>> /\ ~HasKeywordOf(p, f.Keywords)
        IN  /\ filterStats.TotalPosts = Len(fposts)
            /\ filterStats.FilteredPosts = Len(filteredPosts)
            /\ filterStats.LikesFiltered = CountWhere(fposts, failsLikes)
            /\ filterStats.TimeFiltered = CountWhere(fposts, failsTime)
            /\ filterStats.KeywordFiltered = CountWhere(fposts, failsKeywords)

\* One post failed the three tallied predicates and is counted in each tally.
C7_Witness ==
    /\ FilterDone
    /\ Len(fposts) = 1
    /\ filterStats.LikesFiltered = 1
    /\ filterStats.TimeFiltered = 1
    /\ filterStats.KeywordFiltered = 1
    /\ filterStats.FilteredPosts = 0

-----------------------------------------------------------------------------
(* Claims: extractNumberFromText *)

CountDone == npc = "done"

RECURSIVE StripZeros(_)
StripZeros(ds) == IF ds # <<>> /\ Head(ds) = "0" THEN StripZeros(Tail(ds)) ELSE ds

\* The digits of the decimal number int.frac multiplied by 10^e and truncated.
ScaledDigits(int, frac, e) ==
    StripZeros(int \o [i \in 1..e |-> IF i <= Len(frac) THEN frac[i] ELSE "0"])

PlainInteger(ds) == ds # <<>> /\ \A i \in 1..Len(ds) : IsDigit(ds[i])

SuffixExponent(c) ==
    IF c \in {"K", "k"} THEN 3 ELSE IF c \in {"M", "m"} THEN 6 ELSE 9

\* The text is digits, an optional decimal part, and directly a suffix letter.
WrittenWithSuffix ==
    /\ PlainInteger(numShape.int)
    /\ numShape.gap = <<>>
    /\ numShape.tail \in { <<c>> : c \in {"K", "k", "M", "m", "B", "b"} }

\* C8: a number written as digits, optionally with a decimal part, directly
\* followed by K, M or B in either case, gives that number times 1,000,
\* 1,000,000 or 1,000,000,000, truncated to an integer.
C8_SuffixScalesNumber ==
    (CountDone /\ WrittenWithSuffix) =>
        DecimalDigits(numResult) =
            ScaledDigits(numShape.int, SubSeq(numShape.frac, 2, Len(numShape.frac)),
                         SuffixExponent(numShape.tail[1]))

\* The text holds an integer that no suffix letter directly follows.
WrittenWithoutSuffix ==
    /\ numShape.int # <<>>
    /\ numShape.frac = <<>>
    /\ ~(/\ numShape.gap = <<>>
         /\ numShape.tail # <<>>
         /\ numShape.tail[1] \in {"K", "k", "M", "m", "B", "b"})

HasNoDigit == \A i \in 1..Len(numText) : ~IsDigit(numText[i])

\* C9: an integer that no K/M/B suffix letter directly follows gives its
\* value, comma grouping stripped; a text without a digit gives 0.
C9_PlainIntegerGivesItsValue ==
    CountDone =>
        /\ WrittenWithoutSuffix => numResult = Atoi(ReplaceAll(numShape.int, ",", ""))
        /\ HasNoDigit => numResult = 0

-----------------------------------------------------------------------------
(* Claims: parseRelativeTime *)

TimeDone == tpc = "done"

\* The text is "N unit(s) ago".
WrittenAsCountOfUnits == timeShape.count # <<>>

\* The fixed duration of each unit of the claim.
FixedDuration(unit) ==
    CASE unit = <<"s","e","c","o","n","d">> -> Second
      [] unit = WMinute -> Minute
      [] unit = WHour   -> Hour
      [] unit = WDay    -> Day
      [] unit = WWeek   -> 7 * Day
      [] unit = WMonth  -> 30 * Day
      [] unit = WYear   -> 365 * Day

\* C10: "N unit(s) ago", the unit one of second, minute, hour, day, week,
\* month, year, gives now minus N times the unit's fixed duration (a month 30
\* days, a year 365 days).
C10_CountOfUnitsIsFixedDuration ==
    (TimeDone /\ WrittenAsCountOfUnits) =>
        parsedTime = now - Atoi(timeShape.count) * FixedDuration(ToLower(timeShape.unit))


LowerTimeText == ToLower(TrimSpace(timeText))

\* The text has none of the forms parseRelativeTime knows.
Unrecognised ==
    /\ ~FindStringSubmatch("reRelative", LowerTimeText).matched
    /\ ~Contains(LowerTimeText, WYesterday)
    /\ ~Contains(LowerTimeText, WToday)
    /\ \A e \in daysOfWeek : ~Contains(LowerTimeText, e[1])

SaysYesterday == timeShape.count = <<>> /\ Contains(LowerTimeText, WYesterday)
SaysToday     == timeShape.count = <<>> /\ Contains(LowerTimeText, WToday)

-----------------------------------------------------------------------------
(* Claims: timestamp of an assembled post *)

PostAssembled == nProcessed > 0 /\ lastPost # NilPost

\* The candidate has no timestamp element, or none that can be parsed.
NoParseableTimestamp ==
    \A i \in 1..Len(cand.timestamps) :
        LET el == cand.timestamps[i]
        IN  /\ ~el.utime.parses
            /\ ~el.datetime.parses
            /\ parseRelativeTime(el.text, now, loc) = { ZeroTime }

\* C12: an assembled post never has the zero time as its timestamp; without a
\* parseable timestamp on the candidate it has the time of extraction.
C12_TimestampDefaultsToCaptureTime ==
    PostAssembled =>
        /\ lastPost.PostTime # ZeroTime
        /\ NoParseableTimestamp => lastPost.PostTime = now

-----------------------------------------------------------------------------
(* Claims: post type *)

\* C13: the type of an assembled post is "mixed" with a video and an image,
\* else "video" with a video, else "image" with an image, else "link" with a
\* link, else "text"; its media count is its images plus its videos.
C13_PostTypeAndMediaCount ==
    PostAssembled =>
        LET nImages == Len(cand.images)
            nVideos == Len(cand.videos)
            nLinks  == Len(cand.links)
        IN  /\ lastPost.MediaCount = nImages + nVideos
            /\ (nVideos >= 1 /\ nImages >= 1) => lastPost.PostType = "mixed"
            /\ (nVideos >= 1 /\ nImages = 0) => lastPost.PostType = "video"
            /\ (nVideos = 0 /\ nImages >= 1) => lastPost.PostType = "image"
            /\ (nVideos = 0 /\ nImages = 0 /\ nLinks >= 1) => lastPost.PostType = "link"
            /\ (nVideos = 0 /\ nImages = 0 /\ nLinks = 0) => lastPost.PostType = "text"

\* A post with an image and a video was assembled.
C13_Witness ==
    /\ PostAssembled
    /\ Len(cand.images) = 1
    /\ Len(cand.videos) = 1
    /\ lastPost.PostType = "mixed"
    /\ lastPost.MediaCount = 2

-----------------------------------------------------------------------------
(* Claims: a document end to end *)

\* The document of the scenario, its three nodes in any order.
ScenarioNodes == {FullPost, LikeButton, DuplicatePost}
IsScenario(document) ==
    /\ Len(document) = 3
    /\ {document[i] : i \in 1..3} = ScenarioNodes

Position(document, n) == CHOOSE i \in 1..Len(document) : document[i] = n

\* The posts of a run that come from the given node: the run's trace tells
\* which call produced which post only through the identifiers, so this
\* counts the posts carrying none of the identifiers the other nodes give.
LikeButtonDropped ==
    /\ \E i \in 1..Len(docRun.trace) :
         doc[docRun.trace[i][2]] = LikeButton
    /\ Len(docRun.posts) = 2
    /\ \A i \in 1..Len(docRun.posts) : docRun.posts[i].ID = "101"

-----------------------------------------------------------------------------
(* Claims: a run over the groups *)

\* The fetches of the strategies of the group ScrapeGroup is at (the first
\* fetch is getGroupName's).
StrategyFetches == SubSeq(fetches, 2, Len(fetches))
StaticFetches   == SelectSeq(fetches, LAMBDA f : f.strategy = "static")

RECURSIVE FoundBy(_)
FoundBy(fs) ==
    IF fs = <<>> THEN 0
    ELSE (IF Head(fs).err = "nil" THEN Head(fs).found ELSE 0) + FoundBy(Tail(fs))

EveryStrategyFailed ==
    \A i \in 1..Len(StrategyFetches) : StrategyFetches[i].err # "nil"

\* The posts of this group that the filter of the scraper keeps.
PostsToSave ==
    BatchFilter(removeDuplicatePosts(groupPosts), NewFilter,
                [i \in 0..Len(groupPosts) |-> now]).filtered

\* ScrapeGroup has returned to main.
Returned == rpc = "sleep"
LastResult == results[Len(results)]

FailuresAreSkipped ==
    Returned =>
        /\ LastResult.err = "nil"
        /\ Len(fetches) >= 2 /\ fetches[2].strategy = "browser"
        /\ (fetches[2].err # "nil" \/ fetches[2].found < 5)
               => /\ Len(StaticFetches) = Len(StaticURLs)
                  /\ \A i \in 1..Len(StaticURLs) : StaticFetches[i].url = i

SuccessesAreMergedFilteredSaved ==
    Returned =>
        /\ Len(groupPosts) = FoundBy(StrategyFetches)
        /\ LastResult.saved >= Len(PostsToSave) - MaxSaveErrors
        /\ LastResult.saved = Len(PostsToSave)
               => \A i \in 1..Len(PostsToSave) :
                      \E row \in table : /\ row.post_id = PostsToSave[i].ID
                                         /\ row.likes = PostsToSave[i].LikesCount

AllFailedGivesNoPosts ==
    (Returned /\ EveryStrategyFailed) =>
        /\ groupPosts = <<>>
        /\ LastResult.saved = 0
        /\ LastResult.err = "nil"

RunGoesOn ==
    /\ rpc = "sleep" => ENABLED SleepBetweenGroups
    /\ rpc = "done" => /\ Len(results) = Len(RunGroups)
                       /\ \A i \in 1..Len(RunGroups) : results[i].group = RunGroups[i]

NextGroupFollows ==
    /\ (rpc = "finish" /\ EveryStrategyFailed) => table' = table
    /\ rpc = "sleep" =>
           /\ groupIdx' = groupIdx + 1
           /\ rpc' = IF groupIdx < Len(RunGroups) THEN "group" ELSE "done"

\* C15: a failing fetch (group name, browser, a URL of the static method)
\* is skipped and the strategies left still run; the posts of the fetches
\* that succeeded are merged, filtered and saved; when every strategy fails
\* the group has no posts, ScrapeGroup returns nil, nothing is written, and
\* main goes on to the next group until all groups are done.
C15_FetchFailuresAreNotFatal ==
    /\ [](FailuresAreSkipped /\ SuccessesAreMergedFilteredSaved
            /\ AllFailedGivesNoPosts /\ RunGoesOn)
    /\ [][NextGroupFollows]_vars

C15_Witness ==
    /\ rpc = "done"
    /\ Len(results) >= 2
    /\ results[Len(results) - 1].saved = 0
    /\ LastResult.saved > 0
    /\ fetches[1].err # "nil"
    /\ fetches[2].err # "nil"
    /\ \E i, j \in 1..Len(StaticFetches) :
         i < j /\ StaticFetches[i].err # "nil" /\ StaticFetches[j].err = "nil"

-----------------------------------------------------------------------------
(* Claims: persistence *)

\* The step is a SavePost of the models.Post that saveLog' ends with.
IsSave      == Len(saveLog') = Len(saveLog) + 1
SavedPost   == saveLog'[Len(saveLog')]
\* ... of the same models.Post as the save before it.
IsRepeatedSave == IsSave /\ saveLog # <<>> /\ saveLog[Len(saveLog)] = SavedPost

RowOf(rows, id) == CHOOSE row \in rows : row.post_id = id

\* The rows without the column the update trigger stamps.
WithoutUpdatedAt(rows) ==
    { [f \in (DOMAIN row) \ {"updated_at"} |-> row[f]] : row \in rows }

OneRowPerPostID ==
    \A r1, r2 \in table : r1.post_id = r2.post_id => r1 = r2

SaveOfExistingUpdates ==
    (IsSave /\ \E row \in table : row.post_id = SavedPost.PostID) =>
        /\ Cardinality(table') = Cardinality(table)
        /\ LET old == RowOf(table, SavedPost.PostID)
               new == RowOf(table', SavedPost.PostID)
           IN  /\ new.likes = SavedPost.Likes
               /\ new.comments = SavedPost.Comments
               /\ new.shares = SavedPost.Shares
               /\ new.content = old.content
               /\ new.created_at = old.created_at
        /\ \A row \in table : row.post_id # SavedPost.PostID => row \in table'

SaveOfNewInserts ==
    (IsSave /\ ~\E row \in table : row.post_id = SavedPost.PostID) =>
        /\ Cardinality(table') = Cardinality(table) + 1
        /\ table \subseteq table'

-----------------------------------------------------------------------------
(* Claims: rate limiting *)

\* C17: two consecutive fetches of the static method are at least RateLimit
\* apart, whatever the outcome of the first, and so are the return of
\* ScrapeGroup for one group and its call for the next.
C17_FetchesAreRateLimited ==
    /\ \A i \in 1..(Len(StaticFetches) - 1) :
         StaticFetches[i + 1].sent - StaticFetches[i].done >= RateLimit
    /\ \A i \in 1..(Len(results) - 1) :
         results[i + 1].started - results[i].returned >= RateLimit

-----------------------------------------------------------------------------
(* Claims: the order of the strategies *)

Extraction == dpc \in {"extracted", "merged"}

\* The calls of extractSinglePost under the selectors, and in the fallback.
SelectorCalls == SelectSeq(docRun.trace, LAMBDA call : call[1] > 0)
FallbackCalls == SelectSeq(docRun.trace, LAMBDA call : call[1] = 0)

\* The nodes of the model that have what isValidPost asks for.
ValidNodes ==
    { FullPost, DuplicatePost, ContainerPost, AuthorContent, TimeEngagement,
      AuthorEngagement, TrackedLike }

Matching(k) == { i \in 1..Len(doc) : postContainerSelectors[k] \in doc[i].matches }
Yielding(k) == { i \in Matching(k) : doc[i] \in ValidNodes }

Selectors == 1..Len(postContainerSelectors)
NoneMatches  == \A k \in Selectors : Matching(k) = {}
NoneYields   == \A k \in Selectors : Yielding(k) = {}
FirstMatching == CHOOSE k \in Selectors :
                    Matching(k) # {} /\ \A j \in 1..(k - 1) : Matching(j) = {}
FirstYielding == CHOOSE k \in Selectors :
                    Yielding(k) # {} /\ \A j \in 1..(k - 1) : Yielding(j) = {}

InListedOrder ==
    /\ \A i, j \in 1..Len(SelectorCalls) :
         i < j => \/ SelectorCalls[i][1] < SelectorCalls[j][1]
                  \/ /\ SelectorCalls[i][1] = SelectorCalls[j][1]
                     /\ SelectorCalls[i][2] < SelectorCalls[j][2]
    /\ docRun.trace = SelectorCalls \o FallbackCalls

\* The calls under the selectors are those on the elements of the
\* selectors up to last.
ProcessedUpTo(last) ==
    { SelectorCalls[i] : i \in 1..Len(SelectorCalls) }
        = { <<k, i>> : k \in 1..last, i \in 1..Len(doc) } \cap
          { call \in Selectors \X (1..Len(doc)) : call[2] \in Matching(call[1]) }

\* C18 (as stated): the selectors are applied in their order up to the first
\* that matches an element, no element of a later selector is processed, and
\* the fallback processes containers only when no selector matches an
\* element.
C18_StopsAtFirstMatchingStrategy ==
    Extraction =>
        /\ InListedOrder
        /\ ~NoneMatches => ProcessedUpTo(FirstMatching)
        /\ FallbackCalls # <<>> => NoneMatches

\* C18 (amended): the selectors are applied in their order up to the first
\* that gives a valid post: the elements of the selectors before it are
\* processed and give nothing, no element of a later selector is processed,
\* and the posts are those of that one selector, one per valid element; the
\* fallback processes containers only when no selector gives a valid post,
\* whether or not one matches an element.
C18_StopsAtFirstYieldingStrategy ==
    Extraction =>
        /\ InListedOrder
        /\ ~NoneYields =>
              /\ ProcessedUpTo(FirstYielding)
              /\ Len(docRun.posts) = Cardinality(Yielding(FirstYielding))
              /\ FallbackCalls = <<>>
        /\ NoneYields =>
              /\ ProcessedUpTo(Len(postContainerSelectors))
              /\ Len(docRun.posts) <= Len(FallbackCalls)

\* A selector that matches elements and gives no post is followed by the
\* next, and by the fallback.
C18_Witness ==
    /\ dpc = "extracted"
    /\ doc = <<LikeButton, ContainerPost, AuthorContent>>
    /\ docRun.trace = <<<<1, 1>>, <<2, 2>>>>

-----------------------------------------------------------------------------
(* Claims: the fallback's candidates *)

\* The containers of the document the fallback comes to: those that hold an
\* element an indicator matches and have an id.
FallbackContainerNodes ==
    { i \in 1..Len(doc) : doc[i].indicators # {} /\ doc[i].id.exists }

\* The container has its post passed to extractSinglePost, or one with its
\* id has (a second container with an id already met is passed over).
IsCandidate(i) ==
    \E call \in { FallbackCalls[j] : j \in 1..Len(FallbackCalls) } :
        doc[call[2]].id = doc[i].id

TwoCategories(n) ==
    \/ "author" \in n.has /\ "content" \in n.has
    \/ "timestamp" \in n.has /\ "engagement" \in n.has

NamedAsPost(n) ==
    \/ /\ n.dataFt.exists
       /\ \E key \in {TxtTopLevelPostID, TxtStoryFbid, TxtContentID} :
              Contains(n.dataFt.value, key)
    \/ /\ n.id.exists
       /\ \E token \in {TxtStory_, TxtPost_, TxtFeed_} : Contains(n.id.value, token)

\* C19 (as stated): a container the fallback treats as a candidate has an
\* author with content, or a timestamp with an engagement element, whatever
\* its id and its data-ft.
C19_CandidatesHaveTwoCategories ==
    Extraction =>
        \A i \in FallbackContainerNodes : IsCandidate(i) => TwoCategories(doc[i])

\* C19 (amended): when the fallback runs, a container is a candidate exactly
\* when its data-ft names a post (top_level_post_id, story_fbid, content_id),
\* or its id has story_, post_ or feed_ in it, or it has an author with
\* content, or a timestamp with an engagement element; a container with one
\* category and neither such an id nor such a data-ft is never a candidate.
C19_CandidatesAreNamedOrHaveTwoCategories ==
    Extraction =>
        /\ NoneYields =>
              \A i \in FallbackContainerNodes :
                  IsCandidate(i) <=> (NamedAsPost(doc[i]) \/ TwoCategories(doc[i]))
        /\ ~NoneYields => FallbackCalls = <<>>

\* The "Like" buttons in the div with id "feed_9" and in the div with the
\* content_id are candidates, the second gives a post; the one in the div
\* "c1" is not.
C19_Witness ==
    /\ dpc = "extracted"
    /\ doc = <<PlainLike, FeedLike, TrackedLike>>
    /\ docRun.trace = <<<<0, 2>>, <<0, 3>>>>
    /\ Len(docRun.posts) = 1
    /\ docRun.posts[1].ID = "103"
    /\ docRun.posts[1].LikesCount = 7

-----------------------------------------------------------------------------
(* Claims: the identifier of a post *)

\* What each source yields on the node extractPostID was called on; the
\* tracking data of the node are its data-ft and, after it, its data-store.
Yields       == NodeIdSources(idNode)
TrackingID   == IF Yields.dataFtID # "" THEN Yields.dataFtID ELSE Yields.dataStoreID
NoSourceYields ==
    TrackingID = "" /\ Yields.linkID = "" /\ Yields.elemID = ""
IsGeneratedID == \E g \in Groups : returnedID = GeneratedID(g, now)

\* C20: extractPostID returns what the tracking data of the node yield;
\* when they yield nothing, what a permalink-style link yields; when that
\* yields nothing either, what the element id yields; the generated
\* identifier is returned exactly when none of the three yields a value, and
\* the identifier returned is never empty.
C20_FirstYieldingSourceIsReturned ==
    ipc = "returned" =>
        /\ returnedID # ""
        /\ TrackingID # "" => returnedID = TrackingID
        /\ (TrackingID = "" /\ Yields.linkID # "") => returnedID = Yields.linkID
        /\ (TrackingID = "" /\ Yields.linkID = "" /\ Yields.elemID # "")
              => returnedID = Yields.elemID
        /\ IsGeneratedID <=> NoSourceYields

\* A node all of whose sources yield a value: a data-ft whose
\* top_level_post_id is a number and whose content_id is "103", a data-store
\* with story_fbid "107", links that yield "104" and the id
\* hyperfeed_story_id_5e8d7f. The identifier is "103".
C20_Witness ==
    /\ ipc = "returned"
    /\ idNode = IdNode(JSONAttr({JNumber("top_level_post_id", Txt101),
                                 JString("content_id", Txt103),
                                 JString("story_fbid", Txt106)}),
                       JSONAttr({JString("story_fbid", Txt107)}),
                       <<HrefPostsFbid, HrefPermalink>>, Value(IdHyperfeed))
    /\ Yields = [dataFtID |-> "103", dataStoreID |-> "107", linkID |-> "104",
                 elemID |-> "5e8d7f"]
    /\ returnedID = "103"

-----------------------------------------------------------------------------
(* Claims: identifiers within one run *)

\* The markup of the document was extracted twice in the run and the posts
\* of both extractions were merged.
ExtractedTwice == dpc = "merged" /\ docAgain.trace # <<>>

\* C21: the second extraction of the markup gives each post the identifier
\* the first extraction gave it, and removeDuplicatePosts leaves the posts
\* of the first extraction, one per identifier.
C21_SameMarkupSameIdentifier ==
    ExtractedTwice =>
        /\ Len(docAgain.posts) = Len(docRun.posts)
        /\ \A i \in 1..Len(docAgain.posts) : docAgain.posts[i].ID = docRun.posts[i].ID
        /\ docUnique = removeDuplicatePosts(docRun.posts)

-----------------------------------------------------------------------------
(* Claims: names of days of the week *)

\* The names of days of the week in the text, when the text has none of the
\* forms parseRelativeTime looks for first.
NamedDays ==
    IF \/ FindStringSubmatch("reRelative", LowerTimeText).matched
       \/ Contains(LowerTimeText, WYesterday)
       \/ Contains(LowerTimeText, WToday)
    THEN {}
    ELSE { e \in daysOfWeek : Contains(LowerTimeText, e[1]) }

\* The days back from now to the most recent day of the week weekday before
\* today.
DaysBackTo(weekday) ==
    CHOOSE d \in 1..7 : (Weekday(now, loc) + 7 - d) % 7 = weekday

\* C22: for a text that names a day of the week the result is now minus the
\* days back to the most recent such day, seven when it is today's, and
\* falls on that day of the week; so it is one time, the same at every
\* evaluation of the text at this now.
C22_WeekdayIsMostRecentOccurrence ==
    TimeDone =>
        \A e \in NamedDays :
            /\ parsedTime = AddDate(now, 0, 0, -DaysBackTo(e[2]), loc)
            /\ Weekday(parsedTime, loc) = e[2]

-----------------------------------------------------------------------------
(* Claims: the author *)

AuthorReturned == apc = "returned"

UIActionWords == {TxtLikeLower, TxtComment, TxtFollow}

\* The name is longer than 100 characters or has a UI-action word in it.
Implausible(name) ==
    \/ Len(name) > 100
    \/ \E word \in UIActionWords : Contains(ToLower(name), word)

\* C23: extractAuthorName never returns a name of more than 100 characters
\* or one with "like", "comment" or "follow" in it, in whatever case; and it
\* returns the empty string when every selector finds no element, or one
\* whose text is empty or such a name.
C23_AuthorIsPlausible ==
    AuthorReturned =>
        /\ ~Implausible(authorName)
        /\ (\A k \in 1..Len(authorSelectors) :
               \/ ~authorElems[k].found
               \/ TrimSpace(authorElems[k].text) = <<>>
               \/ Implausible(TrimSpace(authorElems[k].text)))
              => authorName = <<>>

-----------------------------------------------------------------------------
(* Claims: the links of a post *)

LinksExtracted == lpc = "extracted"

\* The pages the redirects of the model lead to.
RedirectTargets ==
    { <<HrefRedirectB, HrefOutsideB>>, <<HrefRedirectC, HrefOutsideC>> }

HasAnchor(href) == \E i \in 1..Len(anchors) : anchors[i] = href
HasLink(href)   == \E i \in 1..Len(postLinks) : postLinks[i] = href

\* C24: no link of the post points to the platform's domain; for a
\* redirect of the platform among the a elements the page it leads to,
\* decoded, is among the links; and no link is there twice.
C24_RedirectsAreUnwrapped ==
    LinksExtracted =>
        /\ \A i \in 1..Len(postLinks) : ~Contains(postLinks[i], TxtFacebookCom)
        /\ \A r \in RedirectTargets : HasAnchor(r[1]) => HasLink(r[2])
        /\ \A i, j \in 1..Len(postLinks) : postLinks[i] = postLinks[j] => i = j

-----------------------------------------------------------------------------
(* C25: media is deduplicated by URL within a candidate *)

MediaExtracted == vpc = "extracted"

\* The media list of the post: its images, then its videos.
MediaList == postMedia.Images \o postMedia.Videos

NoTwoShareURL(items) ==
    \A i, j \in 1..Len(items) : items[i].URL = items[j].URL => i = j

\* C25: in every assembled post no two items of the media list (images and
\* videos) have the same URL, however many image and video selectors matched
\* the same element or URL.
C25_NoTwoMediaItemsShareURL ==
    MediaExtracted => NoTwoShareURL(MediaList)

\* What the code keeps: no two images share a URL, and no two videos do.
C25_NoTwoItemsOfOneKindShareURL ==
    MediaExtracted =>
        NoTwoShareURL(postMedia.Images) /\ NoTwoShareURL(postMedia.Videos)

\* An img that three selectors match, next to a second img with the same
\* src, is one image.
C25_Witness ==
    /\ MediaExtracted
    /\ mediaElems = <<ImgPhoto, ImgPhotoAgain>>
    /\ Len(postMedia.Images) = 1

-----------------------------------------------------------------------------
(* Claims: the order of ScrapeGroup's steps *)

\* The strategies of the group are over.
StrategiesOver == rpc \in {"finish", "sleep"}

BrowserFetch == fetches[2]
BrowserFound == IF BrowserFetch.err = "nil" THEN BrowserFetch.found ELSE 0
BrowserPart  == SubSeq(groupPosts, 1, BrowserFound)
StaticPart   == SubSeq(groupPosts, BrowserFound + 1, Len(groupPosts))

SeenByBoth(id) ==
    /\ \E i \in 1..Len(BrowserPart) : BrowserPart[i].ID = id
    /\ \E j \in 1..Len(StaticPart) : StaticPart[j].ID = id

FirstOfBrowser(id) ==
    BrowserPart[CHOOSE i \in 1..Len(BrowserPart) :
                  /\ BrowserPart[i].ID = id
                  /\ \A k \in 1..(i - 1) : BrowserPart[k].ID # id]

\* The static method runs exactly when the browser method returned an error
\* or fewer than 5 posts.
StaticIffBrowserFellShort ==
    StrategiesOver =>
        (Len(StaticFetches) > 0
            <=> (BrowserFetch.err # "nil" \/ BrowserFetch.found < 5))

\* The posts of the static method come after the browser's, and of an
\* identifier both have seen the browser's post is the one kept.
BrowserPostIsRetained ==
    StrategiesOver =>
        /\ Len(groupPosts) = BrowserFound + FoundBy(StaticFetches)
        /\ \A k \in 1..Len(groupPosts) :
             SeenByBoth(groupPosts[k].ID) =>
               \E u \in 1..Len(removeDuplicatePosts(groupPosts)) :
                 /\ removeDuplicatePosts(groupPosts)[u] = FirstOfBrowser(groupPosts[k].ID)
                 /\ \A v \in 1..Len(removeDuplicatePosts(groupPosts)) :
                      removeDuplicatePosts(groupPosts)[v].ID = groupPosts[k].ID => v = u

\* A post is saved only if the filter kept it among the de-duplicated posts:
\* every row written while ScrapeGroup finishes is the row of such a post,
\* with that post's counts.
SavedWereFilteredFromUnique ==
    rpc = "finish" =>
        \A row \in table' \ table :
            \E i \in 1..Len(PostsToSave) :
                /\ row.post_id = PostsToSave[i].ID
                /\ row.likes = PostsToSave[i].LikesCount
                /\ row.scraped_at = now

\* C26: the static strategy runs if and only if the browser strategy returned
\* an error or fewer than 5 posts; its posts are appended after the browser
\* posts, so that for an identifier seen by both the post retained after
\* de-duplication is the browser's; de-duplication precedes filtering, and
\* filtering precedes saving.
C26_StrategiesAndStepsInOrder ==
    /\ [](StaticIffBrowserFellShort /\ BrowserPostIsRetained)
    /\ [][SavedWereFilteredFromUnique]_vars

\* The browser found posts 101 and 102, the latter with no likes; the static
\* method found both with other counts; 101 is saved with the browser's
\* likes and 102 is not saved at all.
C26_Witness ==
    /\ Returned
    /\ SeenByBoth("101") /\ SeenByBoth("102")
    /\ \E row \in table : row.post_id = "101" /\ row.likes = 7
    /\ ~ \E row \in table : row.post_id = "102"

-----------------------------------------------------------------------------
(* Claims: scrolling *)

MaxIterations ==
    [progressive |-> maxScrollsProgressive, infinite |-> maxScrollsInfinite,
     click |-> maxClicks]

IterationsAreBounded ==
    /\ spc \in {"progressive", "infinite"} => scrollIter < MaxIterations[spc]
    /\ \A k \in 1..Len(scrollRan) :
         scrollRan[k].iterations <= MaxIterations[scrollRan[k].strategy]

\* A strategy whose last test had an old post before it is not in its loop
\* any more.
StopsAtOldPosts ==
    (spc \in {"progressive", "infinite"} /\ scrollIter > 0) => ~oldVisible

StopsAtOldPostsReported ==
    (spc \in {"progressive", "infinite"} /\ scrollIter > 0 /\ ~evalFailed)
        => ~oldVisible

LaterOnlyAfterError ==
    /\ spc = "infinite" =>
         Len(scrollRan) = 1 /\ scrollRan[1].strategy = "progressive"
                            /\ scrollRan[1].err # "nil"
    /\ \A k \in 2..Len(scrollRan) : scrollRan[k - 1].err # "nil"

\* C27: every scrolling strategy terminates: progressive scrolling performs
\* at most 20 iterations, infinite scrolling at most 15 and click-see-more at
\* most 10; each stops as soon as a post of 5 days or more is visible; and
\* performScrolling runs a later strategy only when the one before it
\* returned an error.
C27_ScrollingIsBoundedAndStopsAtOldPosts ==
    IterationsAreBounded /\ StopsAtOldPosts /\ LaterOnlyAfterError

ScrollingBoundedAndInOrder ==
    IterationsAreBounded /\ StopsAtOldPostsReported /\ LaterOnlyAfterError

InfiniteScrollRunsOn ==
    ~ (/\ spc = "done"
       /\ scrollRan[Len(scrollRan)] = Ran("infinite", maxScrollsInfinite, "nil")
       /\ oldVisible)

-----------------------------------------------------------------------------
(* Claims: the tallies and the result of BatchFilter *)

\* The i-th post of the batch is in the list BatchFilter returned.
KeptAt(i) == ApplyFilter(fposts[i], fsFilter, clockReads[i])

BatchCutoff == AddDays(clockReads[0], -fsFilter.DaysBack)

CountedInLikes(i) ==
    ~(fsFilter.MinLikes = 0 \/ fposts[i].LikesCount >= fsFilter.MinLikes)
CountedInTime(i) ==
    ~(fsFilter.DaysBack = 0 \/ After(fposts[i].PostTime, BatchCutoff))
CountedInKeywords(i) ==
    ~(Len(fsFilter.Keywords) = 0
        \/ containsAnyKeyword(fposts[i].Content, fsFilter.Keywords))

Removed == filterStats.TotalPosts - filterStats.FilteredPosts

\* C28: every post that BatchFilter counts in LikesFiltered, TimeFiltered or
\* KeywordFiltered is absent from the returned list, for every filter (a
\* post at the cutoff and a negative or zero DaysBack included); hence each
\* of the three tallies is at most TotalPosts minus FilteredPosts.
C28_CountedPostsAreRemoved ==
    FilterDone =>
        /\ filterStats.LikesFiltered =
               Cardinality({i \in 1..Len(fposts) : CountedInLikes(i)})
        /\ filterStats.TimeFiltered =
               Cardinality({i \in 1..Len(fposts) : CountedInTime(i)})
        /\ filterStats.KeywordFiltered =
               Cardinality({i \in 1..Len(fposts) : CountedInKeywords(i)})
        /\ \A i \in 1..Len(fposts) :
             (CountedInLikes(i) \/ CountedInTime(i) \/ CountedInKeywords(i))
                 => ~KeptAt(i)
        /\ filterStats.LikesFiltered <= Removed
        /\ filterStats.TimeFiltered <= Removed
        /\ filterStats.KeywordFiltered <= Removed

\* The same for the likes and keyword tallies alone.
LikesAndKeywordsCountedAreRemoved ==
    FilterDone =>
        /\ \A i \in 1..Len(fposts) :
             (CountedInLikes(i) \/ CountedInKeywords(i)) => ~KeptAt(i)
        /\ filterStats.LikesFiltered <= Removed
        /\ filterStats.KeywordFiltered <= Removed

\* The same where the time tally is for a positive DaysBack and posts before
\* the cutoff or after it.
TimeCountedAreRemovedOffCutoff ==
    (FilterDone /\ fsFilter.DaysBack > 0
        /\ \A i \in 1..Len(fposts) : fposts[i].PostTime # BatchCutoff) =>
        /\ \A i \in 1..Len(fposts) : CountedInTime(i) => ~KeptAt(i)
        /\ filterStats.TimeFiltered <= Removed

NegativeDaysBackCountsKept ==
    ~ (/\ FilterDone
       /\ fsFilter.DaysBack < 0
       /\ Len(fposts) = 1
       /\ filterStats.TimeFiltered = 1
       /\ filterStats.FilteredPosts = 1)

PostAtCutoffCountedAndKept ==
    ~ (/\ FilterDone
       /\ fsFilter.DaysBack > 0
       /\ Len(fposts) = 1
       /\ fposts[1].PostTime = BatchCutoff
       /\ filterStats.TimeFiltered = 1
       /\ filterStats.FilteredPosts = 1)

-----------------------------------------------------------------------------
(* Claims: the Monitor's accounts *)

\* The sum of the values of a function.
RECURSIVE SumOf(_)
SumOf(f) ==
    IF DOMAIN f = {} THEN 0
    ELSE LET g == CHOOSE x \in DOMAIN f : TRUE
         IN  f[g] + SumOf([x \in DOMAIN f \ {g} |-> f[x]])

PostsScrapedOfGroups ==
    SumOf([g \in DOMAIN metrics.GroupMetrics |-> metrics.GroupMetrics[g].PostsScraped])
ErrorCountOfGroups ==
    SumOf([g \in DOMAIN metrics.GroupMetrics |-> metrics.GroupMetrics[g].ErrorCount])

\* C29: from a fresh Monitor, after any sequence of RecordScrapingRun calls,
\* ScrapingRuns is the number of calls, TotalPosts is SuccessfulPosts plus
\* FailedPosts, the PostsScraped of all groups add up to TotalPosts and
\* their ErrorCount to FailedPosts.
C29_MonitorAccountsAddUp ==
    /\ metrics.ScrapingRuns = recorded
    /\ metrics.TotalPosts = metrics.SuccessfulPosts + metrics.FailedPosts
    /\ PostsScrapedOfGroups = metrics.TotalPosts
    /\ ErrorCountOfGroups = metrics.FailedPosts

\* Three runs over two groups, one of them with more errors than posts.
C29_Witness ==
    /\ recorded = 3
    /\ DOMAIN metrics.GroupMetrics = {"g1", "g2"}
    /\ metrics.FailedPosts = 5
    /\ metrics.SuccessfulPosts = 0
    /\ metrics.GroupMetrics["g1"].ErrorCount = 4

-----------------------------------------------------------------------------
(* Claims: pagination of /api/posts *)

PostsHandled == hpc = "handled"

\* An optional sign and one digit or more.
IsDecimal(s) ==
    LET first == IF s # <<>> /\ s[1] \in {"+", "-"} THEN 2 ELSE 1
    IN  first <= Len(s) /\ \A i \in first..Len(s) : IsDigit(s[i])

AtLeast1(x) == ~IsNegative(x) /\ x # Zero64
AtMost100(x) == x[2] = 0 /\ x[3] = 0 /\ x[4] = 0 /\ x[1] <= 100

ParametersAreNormalised ==
    PostsHandled =>
        /\ AtLeast1(storeArgs.page)
        /\ AtLeast1(storeArgs.pageSize) /\ AtMost100(storeArgs.pageSize)
        /\ AtLeast1(storeArgs.minLikes)
        /\ (~IsDecimal(apiRequest.page) \/ apiRequest.page \in {<<"0">>, <<"-","3">>})
               => storeArgs.page = OfSmall(1)
        /\ (~IsDecimal(apiRequest.page_size)
                \/ apiRequest.page_size \in {<<"0">>, <<"-","5">>, <<"1","0","1">>})
               => storeArgs.pageSize = OfSmall(20)
        /\ (~IsDecimal(apiRequest.min_likes) \/ apiRequest.min_likes \in {<<"0">>, <<"-","1">>})
               => storeArgs.minLikes = OfSmall(1000)
        /\ apiRequest.page = <<"2">> => storeArgs.page = OfSmall(2)
        /\ apiRequest.page_size = <<"1","0","0">> => storeArgs.pageSize = OfSmall(100)
        /\ apiRequest.min_likes = <<"5","0">> => storeArgs.minLikes = OfSmall(50)

OffsetIsNeverNegative ==
    PostsHandled => ~IsNegative(storeArgs.offset)

\* C30: for every request to /api/posts the values passed to the store
\* satisfy page >= 1, 1 <= page_size <= 100 and min_likes >= 1 (a missing,
\* unparsable or out-of-range parameter is replaced by page 1, page_size 20,
\* min_likes 1000), and the row offset (page - 1) * page_size is never
\* negative, also for the largest page numbers an int can hold.
C30_PaginationIsNormalised ==
    ParametersAreNormalised /\ OffsetIsNeverNegative

\* The offset of the pages below 2^32.
OffsetOfSmallPagesIsNotNegative ==
    (PostsHandled /\ storeArgs.page[3] = 0 /\ storeArgs.page[4] = 0)
        => ~IsNegative(storeArgs.offset)

LargestPageGivesNegativeOffset ==
    ~ (/\ PostsHandled
       /\ apiRequest.page = <<"9","2","2","3","3","7","2","0","3","6","8","5","4","7","7","5","8","0","7">>
       /\ apiRequest.page_size = <<"2","0">>
       /\ storeArgs.page = MaxInt64
       /\ storeArgs.offset = Negate(OfSmall(40))
       /\ apiStatus = 500)

ConversionsAreRight ==
    /\ strconvAtoi(<<"9","2","2","3","3","7","2","0","3","6","8","5","4","7","7","5","8","0","7">>) = MaxInt64
    /\ strconvAtoi(<<"9","2","2","3","3","7","2","0","3","6","8","5","4","7","7","5","8","0","8">>) = MaxInt64
    /\ strconvAtoi(<<"-","9","2","2","3","3","7","2","0","3","6","8","5","4","7","7","5","8","0","8">>) = MinInt64
    /\ strconvAtoi(<<"-","9","2","2","3","3","7","2","0","3","6","8","5","4","7","7","5","8","0","9">>) = MinInt64
    /\ strconvAtoi(<<"6","5","5","3","6">>) = Int64(0, 1, 0, 0)
    /\ strconvAtoi(<<"4","2","9","4","9","6","7","2","9","7">>) = Int64(1, 0, 1, 0)
    /\ strconvAtoi(<<"-","3">>) = Int64(Limb - 3, Limb - 1, Limb - 1, Limb - 1)
    /\ strconvAtoi(<<"+","7">>) = OfSmall(7)
    /\ strconvAtoi(<<"a","b","c">>) = Zero64
    /\ strconvAtoi(<<>>) = Zero64
    /\ Minus1(Int64(0, 0, 1, 0)) = Int64(Limb - 1, Limb - 1, 0, 0)
    /\ Offset(OfSmall(3), OfSmall(20)) = OfSmall(40)
    /\ Offset(Int64(0, 1, 0, 0), OfSmall(100)) = Int64(65436, 99, 0, 0)

=============================================================================
